---- MODULE Spec2Model ----
(***************************************************************************)
(* A model of the knight's-tour solver: the Warnsdorff backtracking search *)
(* (src/src/warnsdorff), the move graph (src/src/move_graph), the          *)
(* divide-and-conquer driver and merger (src/src/divide_and_conquer) and   *)
(* the partitioner (src/src/divide_and_conquer/partitions.rs).             *)
(*                                                                         *)
(* A position is a pair <<col, row>>; an unset link (Option::None) is the  *)
(* value None.  A graph is a function from the positions of its grid to    *)
(* records [next, prev].                                                   *)
(***************************************************************************)
EXTENDS Integers, Sequences, FiniteSets, TLC

VARIABLES
    size,                \* SolveParams.size of the running search, <<width, height>>
    mode,                \* the Mode of the running search
    dead_squares,        \* SolveParams.dead_squares
    end_point,           \* SolveParams.end_point (None when the mode has none)
    start_pos,           \* SolveParams.pos
    use_cache,           \* SolveParams.cache
    predetermined_moves, \* the map preconnect_corners returns
    expected_move_count, \* solve_internal_impl's expected_move_count
    moves,               \* the stack of skip counts
    knight,              \* Knight.position
    graph,               \* the MoveGraph the search links up
    count,               \* the loop counter `count`
    pc,                  \* where solve_internal_impl stands
    returned,            \* what solve_internal_impl handed to its caller
    cache,               \* STRETCHED_CACHE: <<size, direction>> -> graph
    board,               \* the board-sized MoveGraph of divide_and_conquer_impl
    board_size,          \* the size handed to divide_and_conquer::solve
    tasks,               \* the calls divide_and_conquer_impl_board still has to make
    dnc_pc,              \* where divide_and_conquer::solve stands
    merged,              \* the last merge: its arguments, the graph before and after it
    part,                \* the partitioner's run: its input and its outcome
    call                 \* a call of a stand-alone function: its input and its outcome

vars == <<size, mode, dead_squares, end_point, start_pos, use_cache,
          predetermined_moves, expected_move_count, moves, knight, graph,
          count, pc, returned, cache, board, board_size, tasks, dnc_pc, merged, part,
          call>>

searchVars == <<size, mode, dead_squares, end_point, start_pos, use_cache,
                predetermined_moves, expected_move_count, moves, knight, graph,
                count, pc, returned>>

dncVars == <<board, board_size, tasks, dnc_pc, merged>>

-----------------------------------------------------------------------------
(* Bounds of the model *)

\* smallest and largest side of a tile handed to a stand-alone search
MinDim == 3
MaxDim == 6
\* iterations of the search loop after which a search is no longer followed
MaxSteps == 1000
\* most dead squares of a board searched in Basic mode
MaxDead == 1

-----------------------------------------------------------------------------
(* Positions, sizes, directions: board_pos.rs, board_size.rs, move_graph/mod.rs *)

None == <<-1, -1>>

\* BoardIndex is u16
IdxMax == 65535

BoardPos(col, row) == <<col, row>>

ZERO == BoardPos(0, 0)

Col(pos) == pos[1]

Row(pos) == pos[2]

Abs(n) == IF n < 0 THEN -n ELSE n

Min2(a, b) == IF a < b THEN a ELSE b

Max2(a, b) == IF a < b THEN b ELSE a

Width(sz) == sz[1]

Height(sz) == sz[2]

Fits(sz, pos) == Col(pos) < Width(sz) /\ Row(pos) < Height(sz)

\* every position of a grid of the given size
Positions(sz) == (0 .. Width(sz) - 1) \X (0 .. Height(sz) - 1)

FlipSize(sz) == <<Height(sz), Width(sz)>>

FlipPos(pos) == <<Row(pos), Col(pos)>>

Opposite(dir) == IF dir = "Horizontal" THEN "Vertical" ELSE "Horizontal"

IsKnightMove(a, b) ==
    LET col_diff == Abs(Col(a) - Col(b))
        row_diff == Abs(Row(a) - Row(b))
    IN  (col_diff = 1 /\ row_diff = 2) \/ (col_diff = 2 /\ row_diff = 1)

\* in_range of try_translate_on_board: a negative delta may not exceed the
\* coordinate, a non-negative delta is compared with the board's extent
InRange(min, val, max) == IF val < 0 THEN Abs(val) <= min ELSE val <= max

\* try_translate: None, or the translated position; the u16 addition wraps
\* in a build without overflow checks
TryTranslate(pos, col, row) ==
    IF ~InRange(Col(pos), col, IdxMax) \/ ~InRange(Row(pos), row, IdxMax)
    THEN None
    ELSE << (Col(pos) + col) % (IdxMax + 1), (Row(pos) + row) % (IdxMax + 1) >>

\* pos + offset and pos.translate(dc, dr)
AddPos(pos, offset) == <<Col(pos) + Col(offset), Row(pos) + Row(offset)>>

Translate(pos, dc, dr) == <<Col(pos) + dc, Row(pos) + dr>>

-----------------------------------------------------------------------------
(* Nodes and graphs: move_graph/node.rs, move_graph/mod.rs *)

Node(n, p) == [next |-> n, prev |-> p]

\* MoveGraph::new: every link unset
NewGraph(sz) == [pos \in Positions(sz) |-> Node(None, None)]

SetNext(g, pos, to) == [g EXCEPT ![pos].next = to]

SetPrev(g, pos, to) == [g EXCEPT ![pos].prev = to]

\* Matrix2D::at indexes data[col][row] and aborts outside the grid
InGrid(g, pos) == pos \in DOMAIN g

-----------------------------------------------------------------------------
(* Modes: warnsdorff/mode.rs, and what parse_mode derives from them *)

Basic(dead, start) ==
    [kind |-> "Basic", skip_corner |-> FALSE, dir |-> "Horizontal",
     dead |-> dead, start |-> start]

Closed(skip_corner) ==
    [kind |-> "Closed", skip_corner |-> skip_corner, dir |-> "Horizontal",
     dead |-> {}, start |-> ZERO]

Stretched(dir) ==
    [kind |-> "Stretched", skip_corner |-> FALSE, dir |-> dir,
     dead |-> {}, start |-> ZERO]

Freeform ==
    [kind |-> "Freeform", skip_corner |-> FALSE, dir |-> "Horizontal",
     dead |-> {}, start |-> ZERO]

\* parse_mode: the SolveParams of a mode
ParseMode(m) ==
    CASE m.kind = "Basic" ->
            [dead_squares |-> m.dead, end_point |-> None, pos |-> m.start,
             cache |-> FALSE, direction |-> "Horizontal"]
      [] m.kind = "Closed" ->
            IF m.skip_corner
            THEN [dead_squares |-> {BoardPos(0, 0)}, end_point |-> BoardPos(1, 0),
                  pos |-> BoardPos(1, 0), cache |-> FALSE, direction |-> "Horizontal"]
            ELSE [dead_squares |-> {}, end_point |-> BoardPos(0, 0),
                  pos |-> BoardPos(0, 0), cache |-> FALSE, direction |-> "Horizontal"]
      [] m.kind = "Stretched" ->
            [dead_squares |-> {},
             end_point |-> IF m.dir = "Horizontal" THEN BoardPos(0, 1) ELSE BoardPos(1, 0),
             pos |-> BoardPos(0, 0), cache |-> TRUE, direction |-> m.dir]
      [] OTHER ->
            [dead_squares |-> {}, end_point |-> None, pos |-> BoardPos(0, 0),
             cache |-> TRUE, direction |-> "Horizontal"]

-----------------------------------------------------------------------------
(* Corner and end-point preconnection: warnsdorff/mod.rs *)

\* the multipliers w and h of preconnect_corners, for corner i = 0, 1, 2
CornerW(i) == IF i = 1 THEN -1 ELSE 1

CornerH(i) == IF i = 2 THEN -1 ELSE 1

\* the (top_left.0, top_left.1) pair preconnect_corners derives from the mode
TopLeft(m) ==
    CASE m.kind = "Closed" -> <<TRUE, ~m.skip_corner>>
      [] OTHER -> <<FALSE, FALSE>>

\* the undirected edges preconnect_corners fixes around corner i
CornerEdges(m, sz, i) ==
    LET w == CornerW(i)
        h == CornerH(i)
        pos == BoardPos(IF w = 1 THEN 0 ELSE Width(sz) - 1,
                        IF h = 1 THEN 0 ELSE Height(sz) - 1)
        structured ==
            { <<TryTranslate(pos, 0, h), TryTranslate(pos, 2 * w, 0)>>,
              <<TryTranslate(pos, 0, 2 * h), TryTranslate(pos, w, 0)>> }
        corner ==
            { <<TryTranslate(pos, 2 * w, h), pos>>,
              <<TryTranslate(pos, w, 2 * h), pos>> }
    IN  IF i = 0 /\ ~TopLeft(m)[1] THEN {}
        ELSE IF i = 0 /\ ~TopLeft(m)[2] THEN structured
        ELSE structured \cup corner

\* the loop of preconnect_end_point: the chain of edges from prev onwards
RECURSIVE EndPointChain(_, _, _)
EndPointChain(prev, offset, half_size) ==
    LET next == TryTranslate(prev, offset[1], offset[2])
    IN  IF next = None THEN {}
        ELSE IF Col(next) >= half_size /\ Row(next) >= half_size
             THEN { <<prev, next>> }
             ELSE { <<prev, next>> } \cup EndPointChain(next, offset, half_size)

\* the edges preconnect_end_point adds
PreconnectEndPoint(direction, sz) ==
    LET half_size == Min2(Min2(Max2(Width(sz), Height(sz)) \div 2, Width(sz)), Height(sz))
    IN  IF half_size < 5 THEN {}
        ELSE IF direction = "Horizontal"
             THEN EndPointChain(BoardPos(0, 1), <<2, 1>>, half_size)
             ELSE EndPointChain(BoardPos(1, 0), <<1, 2>>, half_size)

\* the edges of the map preconnect_corners returns
PreconnectEdges(m, sz) ==
    IF m.kind = "Basic" THEN {}
    ELSE CornerEdges(m, sz, 0) \cup CornerEdges(m, sz, 1) \cup CornerEdges(m, sz, 2)
         \cup (IF m.kind = "Stretched" THEN PreconnectEndPoint(m.dir, sz) ELSE {})

\* preconnect_corners: position -> set of partners, keys being the positions
\* that have a partner
PreconnectCorners(m, sz) ==
    LET edges == PreconnectEdges(m, sz)
        keys == { e[1] : e \in edges } \cup { e[2] : e \in edges }
    IN  [ p \in keys |-> { e[2] : e \in { x \in edges : x[1] = p } }
                          \cup { e[1] : e \in { x \in edges : x[2] = p } } ]

-----------------------------------------------------------------------------
(* Reachability: ReachabilityChecker in warnsdorff/mod.rs *)

\* is_occupied of ReachabilityChecker::reachable; the node read aborts
\* outside the grid, which PanicKind accounts for
IsOccupied(g, pos) == InGrid(g, pos) /\ g[pos].prev # None

\* the ReachabilityChecker solve_internal_impl builds in one loop iteration
Checker(g, skips, emc, end, dead, start, pre, sz) ==
    [target |-> IF Len(skips) = emc THEN end ELSE None,
     end_point |-> end,
     dead_squares |-> dead,
     graph |-> g,
     start |-> start,
     predetermined_moves |-> pre,
     move_to_end_allowed |-> emc - Len(skips) < 3,
     size |-> sz]

\* the squares reachable() gets past its first five early returns for
PassesBasicChecks(ck, from, pos) ==
    /\ ck.target = None
    /\ ~(ck.end_point # None /\ pos = ck.end_point)
    /\ ~(from = pos \/ ck.start = pos)
    /\ ~(pos \in ck.dead_squares \/ Width(ck.size) <= Col(pos) \/ Height(ck.size) <= Row(pos))
    /\ ~IsOccupied(ck.graph, pos)

\* the block `if let Some(next) = predetermined_moves.get(&pos)`:
\* "true", "false", or "fall" when it falls through to the last block
ViaPredetermined(ck, from, pos) ==
    IF pos \notin DOMAIN ck.predetermined_moves THEN "fall"
    ELSE LET next == { q \in ck.predetermined_moves[pos] :
                          ~IsOccupied(ck.graph, q) \/ q = from \/ q = ck.end_point }
         IN  IF from \in next THEN "true"
             ELSE IF Cardinality(next) > 1 THEN "false"
             ELSE IF ck.end_point # None /\ ~ck.move_to_end_allowed /\ ck.end_point \in next
                  THEN "false"
                  ELSE "fall"

\* the block skipped: a square with a free partner may be left for any square
FromPredeterminedFree(ck, from) == TRUE

\* the block `if let Some(prev) = predetermined_moves.get(&from)`
FromPredetermined(ck, from) ==
    IF from \in DOMAIN ck.predetermined_moves
    THEN \A q \in ck.predetermined_moves[from] : IsOccupied(ck.graph, q)
    ELSE TRUE

\* ReachabilityChecker::reachable
Reachable(ck, from, pos) ==
    IF ck.target # None THEN pos = ck.target
    ELSE IF ~PassesBasicChecks(ck, from, pos) THEN FALSE
    ELSE LET via == ViaPredetermined(ck, from, pos)
         IN  IF via = "true" THEN TRUE
             ELSE IF via = "false" THEN FALSE
             ELSE FromPredetermined(ck, from)

\* whether one call of reachable() reads a node outside the grid and aborts:
\* "must" in the filter over the partners of pos (every partner is read), and
\* in the all() over the partners of `from` when no partner inside the grid
\* is unoccupied; "may" when all() can stop at an unoccupied partner before it
\* reaches the one outside (the HashSet's iteration order decides)
PanicKind(ck, from, pos) ==
    IF ck.target # None \/ ~PassesBasicChecks(ck, from, pos) THEN "none"
    ELSE IF /\ pos \in DOMAIN ck.predetermined_moves
            /\ \E q \in ck.predetermined_moves[pos] : ~InGrid(ck.graph, q)
         THEN "must"
         ELSE IF /\ ViaPredetermined(ck, from, pos) = "fall"
                 /\ from \in DOMAIN ck.predetermined_moves
                 /\ \E q \in ck.predetermined_moves[from] : ~InGrid(ck.graph, q)
              THEN IF \A q \in ck.predetermined_moves[from] :
                           InGrid(ck.graph, q) => IsOccupied(ck.graph, q)
                   THEN "must" ELSE "may"
              ELSE "none"

-----------------------------------------------------------------------------
(* The knight's move generator and the Warnsdorff ranking: knight.rs *)

\* the offset PossibleMovesIterator::next computes for self.offset = o
KnightOffset(o) ==
    LET h_neg == 1 - (2 * ((o \div 2) % 2))
        h_offset == (2 - o \div 4) * h_neg
        v_neg == 1 - (2 * (o % 2))
        v_offset == (1 + o \div 4) * v_neg
    IN  <<h_offset, v_offset>>

\* the eight squares try_translate yields from pos, None where it fails
Translated(pos) ==
    [o \in 1 .. 8 |-> TryTranslate(pos, KnightOffset(o - 1)[1], KnightOffset(o - 1)[2])]

Keep(ck, pos, q) == q # None /\ Reachable(ck, pos, q)

\* get_possible_moves_impl(...).collect(): the reachable squares in
\* generation order
PossibleMovesImpl(ck, pos) ==
    LET t == Translated(pos)
    IN  SelectSeq(t, LAMBDA q : Keep(ck, pos, q))

\* possible_moves_count with moves_ahead = 1
PossibleMovesCount(ck, pos) == Len(PossibleMovesImpl(ck, pos))

\* usize::MAX, the sort key of a candidate without an onward move (only its
\* being larger than every count matters)
UsizeMax == 2147483647

MovesAhead == 1

\* the onward count itself as the key: a candidate without an onward move
\* sorts first
SortKeyPlain(ck, pos) == PossibleMovesCount(ck, pos)

\* the key get_possible_moves sorts by
SortKey(ck, pos) ==
    LET n == PossibleMovesCount(ck, pos)
    IN  IF n < MovesAhead THEN UsizeMax ELSE n

\* sort_by_cached_key is stable: candidate i comes before candidate j when its
\* key is smaller, or equal with i generated first
StableSort(seq, key) ==
    LET n == Len(seq)
        rank(i) == Cardinality({ j \in 1 .. n :
                        key[j] < key[i] \/ (key[j] = key[i] /\ j < i) }) + 1
    IN  [k \in 1 .. n |-> seq[CHOOSE i \in 1 .. n : rank(i) = k]]

\* Knight::get_possible_moves
GetPossibleMoves(ck, pos) ==
    LET possible_moves == PossibleMovesImpl(ck, pos)
        key == [i \in 1 .. Len(possible_moves) |-> SortKey(ck, possible_moves[i])]
    IN  StableSort(possible_moves, key)

\* every call reachable(from, to) that get_possible_moves makes
ReachableCalls(ck, pos) ==
    LET first == { <<pos, q>> : q \in { Translated(pos)[o] : o \in 1 .. 8 } \ {None} }
        cands == { c[2] : c \in { x \in first : Reachable(ck, x[1], x[2]) } }
    IN  first \cup UNION { { <<c, q>> : q \in { Translated(c)[o] : o \in 1 .. 8 } \ {None} }
                           : c \in cands }

\* some iteration order of the partner sets makes get_possible_moves abort
MayPanic(ck, pos) ==
    \E c \in ReachableCalls(ck, pos) : PanicKind(ck, c[1], c[2]) # "none"

\* every iteration order makes it abort
MustPanic(ck, pos) ==
    \E c \in ReachableCalls(ck, pos) : PanicKind(ck, c[1], c[2]) = "must"

-----------------------------------------------------------------------------
(* The stretched-tile cache: warnsdorff/cache.rs *)

CacheKey(sz, direction) == <<sz, direction>>

\* get_stretched_cached(...).is_some()
IsCached(c, sz, direction) == CacheKey(sz, direction) \in DOMAIN c

\* a cache that holds the latest entry only
InsertStretchedCacheAlone(c, sz, direction, g) ==
    [k \in {CacheKey(sz, direction)} |-> g]

\* insert_stretched_cache: HashMap::insert replaces an entry of the same key
InsertStretchedCache(c, sz, direction, g) ==
    [k \in DOMAIN c \cup {CacheKey(sz, direction)} |->
        IF k = CacheKey(sz, direction) THEN g ELSE c[k]]

\* MoveGraph::flip: positions and links transposed
Flip(g) ==
    [pos \in { FlipPos(p) : p \in DOMAIN g } |->
        LET node == g[FlipPos(pos)]
        IN  Node(IF node.next = None THEN None ELSE FlipPos(node.next),
                 IF node.prev = None THEN None ELSE FlipPos(node.prev))]

-----------------------------------------------------------------------------
(* The search: solve_internal_impl in warnsdorff/mod.rs *)

\* expected_move_count without the closing move of a tour that ends on its start
ExpectedMoveCountOpen(sz, dead, end, start) ==
    (Width(sz) * Height(sz) - Cardinality(dead)) - 1

\* expected_move_count
ExpectedMoveCount(sz, dead, end, start) ==
    (Width(sz) * Height(sz) - Cardinality(dead))
        - (IF end # None /\ end = start THEN 0 ELSE 1)

\* the checker of the current loop iteration
CurrentChecker ==
    Checker(graph, moves, expected_move_count, end_point, dead_squares,
            start_pos, predetermined_moves, size)

\* possible_moves.iter().skip(skip).next(): the candidate, or None
NextMove(ck, pos, skip) ==
    LET possible_moves == GetPossibleMoves(ck, pos)
    IN  IF skip < Len(possible_moves) THEN possible_moves[skip + 1] ELSE None

Last(seq) == seq[Len(seq)]

\* some partner in the preconnection map lies outside the grid
HasOutsidePartner ==
    \E p \in DOMAIN predetermined_moves :
        \E q \in predetermined_moves[p] : ~InGrid(graph, q)

\* lines 89-127 when nothing is served from the cache: the state on entry to
\* the loop
BeginSearch(sz, m) ==
    LET params == ParseMode(m)
    IN  /\ size' = sz
        /\ mode' = m
        /\ dead_squares' = params.dead_squares
        /\ end_point' = params.end_point
        /\ start_pos' = params.pos
        /\ use_cache' = params.cache
        /\ graph' = SetPrev(NewGraph(sz), params.pos, params.pos)
        /\ knight' = params.pos
        /\ predetermined_moves' = PreconnectCorners(m, sz)
        /\ expected_move_count' =
               ExpectedMoveCount(sz, params.dead_squares, params.end_point, params.pos)
        /\ moves' = <<0>>
        /\ count' = 0
        /\ pc' = "searching"
        /\ returned' = returned
        /\ cache' = cache

\* lines 98-110: the request is served from the cache, directly or by
\* flipping the entry of the transposed size and opposite direction
ServeFromCache(sz, m) ==
    LET params == ParseMode(m)
        direct == IsCached(cache, sz, params.direction)
        flipped == Flip(cache[CacheKey(FlipSize(sz), Opposite(params.direction))])
    IN  /\ size' = sz
        /\ mode' = m
        /\ cache' = IF direct THEN cache
                    ELSE InsertStretchedCache(cache, sz, params.direction, flipped)
        /\ returned' = [some |-> TRUE,
                        graph |-> IF direct THEN cache[CacheKey(sz, params.direction)]
                                  ELSE flipped,
                        after |-> "cache"]
        /\ pc' = "returned"
        /\ UNCHANGED <<dead_squares, end_point, start_pos, use_cache,
                       predetermined_moves, expected_move_count, moves, knight,
                       graph, count>>

\* solve_internal_impl up to the loop
SolveInternalImpl(sz, m) ==
    LET params == ParseMode(m)
    IN  IF /\ params.cache
           /\ \/ IsCached(cache, sz, params.direction)
              \/ IsCached(cache, FlipSize(sz), Opposite(params.direction))
        THEN ServeFromCache(sz, m)
        ELSE BeginSearch(sz, m)

\* Advance with the loop condition moves.len() < expected_move_count
AdvanceStopEarly(next_move) ==
    /\ moves' = Append(moves, 0)
    /\ graph' = SetPrev(SetNext(graph, knight, next_move), next_move, knight)
    /\ knight' = next_move
    /\ pc' = IF Len(moves) + 1 < expected_move_count THEN "searching" ELSE "success"

\* lines 153-167: a candidate was found; link it, push a skip count, advance
\* (the loop's condition then decides whether another iteration follows)
Advance(next_move) ==
    /\ moves' = Append(moves, 0)
    /\ graph' = SetPrev(SetNext(graph, knight, next_move), next_move, knight)
    /\ knight' = next_move
    /\ pc' = IF Len(moves) + 1 <= expected_move_count THEN "searching" ELSE "success"

\* a backtracking step that leaves the predecessor's next link in place
BacktrackKeepsLink ==
    LET popped == SubSeq(moves, 1, Len(moves) - 1)
        prev_pos == graph[knight].prev
    IN  /\ moves' = [popped EXCEPT ![Len(popped)] = @ + 1]
        /\ IF prev_pos # None
           THEN /\ graph' = SetPrev(graph, knight, None)
                /\ knight' = prev_pos
                /\ pc' = "searching"
           ELSE /\ graph' = graph
                /\ knight' = knight
                /\ pc' = "panic"

\* a backtracking step that skips the undone move and the one after it
BacktrackSkipTwo ==
    LET popped == SubSeq(moves, 1, Len(moves) - 1)
        prev_pos == graph[knight].prev
    IN  /\ moves' = [popped EXCEPT ![Len(popped)] = @ + 2]
        /\ IF prev_pos # None
           THEN /\ graph' = SetNext(SetPrev(graph, knight, None), prev_pos, None)
                /\ knight' = prev_pos
                /\ pc' = "searching"
           ELSE /\ graph' = graph
                /\ knight' = knight
                /\ pc' = "panic"

\* lines 168-194: undo the last move and skip it from now on
Backtrack ==
    LET popped == SubSeq(moves, 1, Len(moves) - 1)
        prev_pos == graph[knight].prev
    IN  /\ moves' = [popped EXCEPT ![Len(popped)] = @ + 1]
        /\ IF prev_pos # None
           THEN /\ graph' = SetNext(SetPrev(graph, knight, None), prev_pos, None)
                /\ knight' = prev_pos
                /\ pc' = "searching"
           ELSE /\ graph' = graph
                /\ knight' = knight
                /\ pc' = "panic"

\* lines 195-198: no candidate and only the start on the stack
Exhausted ==
    /\ pc' = "failure"
    /\ UNCHANGED <<moves, graph, knight>>

\* one iteration of the loop of solve_internal_impl (lines 129-199)
Iterate ==
    /\ pc = "searching"
    /\ count < MaxSteps
    /\ ~(HasOutsidePartner /\ MustPanic(CurrentChecker, knight))
    /\ LET next_move == NextMove(CurrentChecker, knight, Last(moves))
       IN  IF next_move # None THEN Advance(next_move)
           ELSE IF Len(moves) > 1 THEN Backtrack
           ELSE Exhausted
    /\ count' = count + 1
    /\ UNCHANGED <<size, mode, dead_squares, end_point, start_pos, use_cache,
                   predetermined_moves, expected_move_count, returned, cache>>
    /\ UNCHANGED <<dncVars, part, call>>

\* a loop iteration in which reachable() reads a node outside the grid
SearchPanic ==
    /\ pc = "searching"
    /\ count < MaxSteps
    /\ HasOutsidePartner
    /\ MayPanic(CurrentChecker, knight)
    /\ pc' = "panic"
    /\ count' = count + 1
    /\ UNCHANGED <<size, mode, dead_squares, end_point, start_pos, use_cache,
                   predetermined_moves, expected_move_count, moves, knight, graph,
                   returned, cache>>
    /\ UNCHANGED <<dncVars, part, call>>

\* lines 201-208: after the loop, by its condition or by break, the graph is
\* put in the cache when the mode caches and is returned as Some
Return ==
    /\ pc \in {"success", "failure"}
    /\ cache' = IF use_cache
                THEN InsertStretchedCache(cache, size, ParseMode(mode).direction, graph)
                ELSE cache
    /\ returned' = [some |-> TRUE, graph |-> graph, after |-> pc]
    /\ pc' = "returned"
    /\ UNCHANGED <<size, mode, dead_squares, end_point, start_pos, use_cache,
                   predetermined_moves, expected_move_count, moves, knight, graph,
                   count>>
    /\ UNCHANGED <<dncVars, part, call>>

-----------------------------------------------------------------------------
(* Graph operations of the tiler: move_graph/mod.rs, divide_and_conquer *)

\* a link copied without the offset of its tile
OffsetLinkUnmoved(link, offset) == link

\* Option::map(|pos| pos + offset)
OffsetLink(link, offset) == IF link = None THEN None ELSE AddPos(link, offset)

\* MoveGraph::insert_section: the links of every node of g, moved by offset
InsertSection(b, g, offset) ==
    [pos \in DOMAIN b |->
        IF \E p \in DOMAIN g : AddPos(p, offset) = pos
        THEN LET node == g[<<Col(pos) - Col(offset), Row(pos) - Row(offset)>>]
             IN  Node(OffsetLink(node.next, offset), OffsetLink(node.prev, offset))
        ELSE b[pos]]

\* a reversal that leaves the node as it is
ReverseInPlaceKept(node) == node

\* Node::reverse_in_place
ReverseInPlace(node) == Node(node.prev, node.next)

\* the rectangle reverse_section walks
Section(pos, sz) ==
    (Col(pos) .. Col(pos) + Width(sz) - 1) \X (Row(pos) .. Row(pos) + Height(sz) - 1)

\* a reversal of the whole graph in place of the section
ReverseSectionAll(b, pos, sz) == [p \in DOMAIN b |-> ReverseInPlace(b[p])]

\* MoveGraph::reverse_section
ReverseSection(b, pos, sz) ==
    [p \in DOMAIN b |-> IF p \in Section(pos, sz) THEN ReverseInPlace(b[p]) ELSE b[p]]

\* the closure update_node of merge: the node with one link redirected, or
\* an error
UpdateNode(node, node_pos, old_target, new_target) ==
    IF node.prev = old_target \/ (old_target = None /\ node.prev = node_pos)
    THEN [ok |-> TRUE, node |-> Node(node.next, new_target)]
    ELSE IF node.next = old_target \/ (old_target = None /\ node.next = node_pos)
         THEN [ok |-> TRUE, node |-> Node(new_target, node.prev)]
         ELSE [ok |-> FALSE, node |-> node]

\* the four boundary nodes of a merge at pos
SecondStart(pos, direction) == pos

SecondEnd(pos, direction) ==
    AddPos(pos, IF direction = "Horizontal" THEN BoardPos(0, 1) ELSE BoardPos(1, 0))

FirstEnd(pos, direction) ==
    IF direction = "Horizontal" THEN Translate(pos, -2, 0) ELSE Translate(pos, 0, -2)

FirstStart(pos, direction) ==
    IF direction = "Horizontal" THEN Translate(pos, -1, 2) ELSE Translate(pos, 2, -1)

\* one link of the chain!-ed updates: applied when everything before it was Ok
ChainUpdate(res, node_pos, old_target, new_target) ==
    IF ~res.ok THEN res
    ELSE LET u == UpdateNode(res.graph[node_pos], node_pos, old_target, new_target)
         IN  [ok |-> u.ok, graph |-> [res.graph EXCEPT ![node_pos] = u.node]]

\* merge: the graph after it, ok = FALSE where the code panics (an update
\* finds no link to redirect, or a boundary node lies outside the graph)
Merge(b, pos, latter_size, direction) ==
    LET second_start == SecondStart(pos, direction)
        second_end == SecondEnd(pos, direction)
        first_end == FirstEnd(pos, direction)
        first_start == FirstStart(pos, direction)
    IN  IF ~({second_start, second_end, first_end, first_start} \subseteq DOMAIN b)
        THEN [ok |-> FALSE, graph |-> b]
        ELSE LET reversed == IF b[first_end].next = first_start
                             THEN ReverseSection(b, pos, latter_size)
                             ELSE b
                 r0 == [ok |-> TRUE, graph |-> reversed]
                 r1 == ChainUpdate(r0, first_start, first_end, second_start)
                 r2 == ChainUpdate(r1, first_end, first_start, second_end)
                 r3 == ChainUpdate(r2, second_start, None, first_start)
                 r4 == ChainUpdate(r3, second_end, None, first_end)
             IN  r4

\* divide_and_conquer_open, after the closed assembly: the move from (0,0)
\* is inserted in front of (2,1)
OpenFinish(b) ==
    LET b1 == SetNext(b, BoardPos(0, 0), BoardPos(2, 1))
        prev == b1[BoardPos(2, 1)].prev
        b2 == SetPrev(b1, BoardPos(2, 1), BoardPos(0, 0))
    IN  IF prev # None THEN SetNext(b2, prev, None) ELSE b2

-----------------------------------------------------------------------------
(* The divide-and-conquer driver: divide_and_conquer/mod.rs *)

\* the plain halves of a length, the first rounded up
SplitLengthPlainHalves(length) == <<length - length \div 2, length \div 2>>

\* split_length of divide_and_conquer/mod.rs and of partitions.rs
SplitLength(length) ==
    LET half == (length \div 4) * 2 + (length % 2)
    IN  <<half, length - half>>

\* a pending call of divide_and_conquer_impl_board
BoardTask(offset, sz, qmode, direction) ==
    [kind |-> "board", offset |-> offset, size |-> sz, qmode |-> qmode,
     direction |-> direction]

\* a pending call of merge
MergeTask(offset, sz, direction) ==
    [kind |-> "merge", offset |-> offset, size |-> sz, qmode |-> "Stretched",
     direction |-> direction]

\* lines 81-90: the solver mode of a tile of at most 10x10, "none" where the
\* function returns None
SolverMode(sz, qmode, direction) ==
    LET min_dimension == Min2(Width(sz), Height(sz))
        max_dimension == Max2(Width(sz), Height(sz))
    IN  IF qmode = "Stretched" THEN Stretched(direction)
        ELSE IF (min_dimension = 3 /\ max_dimension \in {4, 7, 8}) \/ min_dimension = 4
             THEN Freeform
             ELSE IF min_dimension >= 4 /\ max_dimension > 4
                  THEN Closed(min_dimension % 2 # 0 /\ max_dimension % 2 # 0)
                  ELSE [kind |-> "none", skip_corner |-> FALSE, dir |-> "Horizontal",
                        dead |-> {}, start |-> ZERO]

\* lines 98-165: the sectors of a board with a side above 10, as
\* <<offset, size, direction>>
Sectors(offset, sz) ==
    LET min_dimension == Min2(Width(sz), Height(sz))
        max_dimension == Max2(Width(sz), Height(sz))
        wide == Width(sz) > Height(sz)
        direction == IF wide THEN "Horizontal" ELSE "Vertical"
        set_max_dimension(s, v) == IF wide THEN <<v, Height(s)>> ELSE <<Width(s), v>>
        new_size(min, max) == IF wide THEN <<max, min>> ELSE <<min, max>>
        new_pos(a, b) == IF wide THEN BoardPos(b, a) ELSE BoardPos(a, b)
        m == SplitLength(max_dimension)
        n == SplitLength(min_dimension)
        other_direction == Opposite(direction)
    IN  IF min_dimension = 3
        THEN << <<offset, set_max_dimension(sz, max_dimension - 4), "Horizontal">>,
                <<AddPos(offset, new_pos(0, max_dimension - 4)),
                  set_max_dimension(sz, 4), direction>> >>
        ELSE IF min_dimension >= 4 /\ min_dimension <= 10
             THEN << <<offset, set_max_dimension(sz, m[1]), "Horizontal">>,
                     <<AddPos(offset, new_pos(0, m[1])),
                       set_max_dimension(sz, m[2]), direction>> >>
             ELSE << <<offset, new_size(n[1], m[1]), "Horizontal">>,
                     <<AddPos(offset, new_pos(n[1], 0)), new_size(n[2], m[1]),
                       other_direction>>,
                     <<AddPos(offset, new_pos(0, m[1])), new_size(n[1], m[2]), direction>>,
                     <<AddPos(offset, new_pos(n[1], m[1])), new_size(n[2], m[2]),
                       other_direction>> >>

\* lines 167-185: the calls the loop over the sectors makes, in order
SectorCalls(sectors, qmode, direction) ==
    LET first == <<BoardTask(sectors[1][1], sectors[1][2], qmode,
                             IF qmode = "Stretched" THEN direction ELSE sectors[1][3])>>
        rest(i) == <<BoardTask(sectors[i][1], sectors[i][2], "Stretched", sectors[i][3]),
                     MergeTask(sectors[i][1], sectors[i][2], sectors[i][3])>>
    IN  IF Len(sectors) = 2 THEN first \o rest(2)
        ELSE first \o rest(2) \o rest(3) \o rest(4)

\* main.rs, lines 22-38: the answer main gives before any search, "solve"
\* for a board it goes on to solve
MainOracle(sz) ==
    LET min_dimension == Min2(Width(sz), Height(sz))
        max_dimension == Max2(Width(sz), Height(sz))
    IN  IF min_dimension = 1 /\ max_dimension = 1 THEN "trivial"
        ELSE IF \/ min_dimension <= 2
                \/ (min_dimension = 3 /\ max_dimension \in {3, 5, 6})
                \/ (min_dimension = 4 /\ max_dimension = 4)
             THEN "none"
             ELSE "solve"

\* the open assembly picked for every board
IsOpenBoardAlways(sz) == TRUE

\* divide_and_conquer::solve picks the closed or the open assembly
IsOpenBoard(sz) == ~(Width(sz) % 2 = 0 \/ Height(sz) % 2 = 0)

Tail1(seq) == SubSeq(seq, 2, Len(seq))

\* solve and divide_and_conquer_impl: the empty graph and the first call
DncSolve ==
    /\ dnc_pc = "start"
    /\ board' = NewGraph(board_size)
    /\ tasks' = <<BoardTask(ZERO, board_size, "Closed", "Horizontal")>>
    /\ dnc_pc' = "running"
    /\ UNCHANGED <<searchVars, cache, board_size, merged, part, call>>

\* divide_and_conquer_impl_board on a board with a side above 10: its
\* sectors become the next calls
DncDivide ==
    /\ dnc_pc = "running"
    /\ tasks # <<>>
    /\ tasks[1].kind = "board"
    /\ ~(Width(tasks[1].size) <= 10 /\ Height(tasks[1].size) <= 10)
    /\ tasks' = SectorCalls(Sectors(tasks[1].offset, tasks[1].size),
                            tasks[1].qmode, tasks[1].direction) \o Tail1(tasks)
    /\ UNCHANGED <<searchVars, cache, board, board_size, dnc_pc, merged, part, call>>

\* divide_and_conquer_impl_board on a tile of at most 10x10, up to the call
\* of solve_internal (or the return of None for a tile without a mode)
DncTile ==
    /\ dnc_pc = "running"
    /\ tasks # <<>>
    /\ tasks[1].kind = "board"
    /\ Width(tasks[1].size) <= 10 /\ Height(tasks[1].size) <= 10
    /\ LET solver_mode == SolverMode(tasks[1].size, tasks[1].qmode, tasks[1].direction)
       IN  IF solver_mode.kind = "none"
           THEN /\ dnc_pc' = "none"
                /\ UNCHANGED <<searchVars, cache>>
           ELSE /\ dnc_pc' = "solving"
                /\ SolveInternalImpl(tasks[1].size, solver_mode)
    /\ UNCHANGED <<board, board_size, tasks, merged, part, call>>

\* solve_internal returned: insert_section places the tile
DncInsert ==
    /\ dnc_pc = "solving"
    /\ pc = "returned"
    /\ board' = InsertSection(board, returned.graph, tasks[1].offset)
    /\ tasks' = Tail1(tasks)
    /\ dnc_pc' = "running"
    /\ pc' = "idle"
    /\ UNCHANGED <<size, mode, dead_squares, end_point, start_pos, use_cache,
                   predetermined_moves, expected_move_count, moves, knight, graph,
                   count, returned, cache, board_size, merged, part, call>>

\* merge of the tile just placed
DncMerge ==
    /\ dnc_pc = "running"
    /\ tasks # <<>>
    /\ tasks[1].kind = "merge"
    /\ LET res == Merge(board, tasks[1].offset, tasks[1].size, tasks[1].direction)
       IN  /\ board' = res.graph
           /\ dnc_pc' = IF res.ok THEN "running" ELSE "panic"
    /\ merged' = [pos |-> tasks[1].offset, size |-> tasks[1].size,
                  direction |-> tasks[1].direction, before |-> board,
                  after |-> board', ok |-> dnc_pc' = "running"]
    /\ tasks' = Tail1(tasks)
    /\ UNCHANGED <<searchVars, cache, board_size, part, call>>

\* every call returned: the open assembly is finished, the graph returned
DncReturn ==
    /\ dnc_pc = "running"
    /\ tasks = <<>>
    /\ board' = IF IsOpenBoard(board_size) THEN OpenFinish(board) ELSE board
    /\ dnc_pc' = "done"
    /\ UNCHANGED <<searchVars, cache, board_size, tasks, merged, part, call>>

-----------------------------------------------------------------------------
(* The partitioner: divide_and_conquer/partitions.rs *)

\* Idx arithmetic: the value kept by a build without overflow checks
WrapIdx(v) == v % (IdxMax + 1)

\* lines 33-45: the queue of segment_length, halving what is longer than 10
RECURSIVE SegmentQueue(_, _)
SegmentQueue(queue, segments) ==
    IF queue = <<>> THEN segments
    ELSE LET offset == queue[1][1]
             length == queue[1][2]
             split == SplitLength(length)
             first == split[1]
             second == split[2]
             q1 == IF first > 10 THEN Tail1(queue) \o << <<offset, first>> >>
                   ELSE Tail1(queue)
             s1 == IF first > 10 THEN segments ELSE segments \o << <<offset, first>> >>
             q2 == IF second > 10 THEN q1 \o << <<offset + first, second>> >> ELSE q1
             s2 == IF second > 10 THEN s1 ELSE s1 \o << <<offset + first, second>> >>
         IN  SegmentQueue(q2, s2)

\* lines 14-16: the number of 4-long parts cut from a strip of width 3
StripParts(length) ==
    LET remainder == length - (10 % 4)
    IN  (length - (10 \div 4)) + (IF remainder = 0 THEN 0 ELSE 1)

\* lines 17-22: the segments of a strip of width 3, in wrapping arithmetic;
\* StripLoop makes the passes lo .. hi of the loop over res (the first half
\* of the passes before the second)
StripSegments(length, i) ==
    LET RECURSIVE StripLoop(_, _, _)
        StripLoop(res, lo, hi) ==
            IF lo > hi THEN res
            ELSE IF lo = hi
                 THEN LET prev == res[lo]
                      IN  res \o << <<WrapIdx(prev[1] + prev[2]), 4>> >>
                 ELSE LET mid == (lo + hi) \div 2
                          left == StripLoop(res, lo, mid)
                      IN  IF Len(left) > 0 THEN StripLoop(left, mid + 1, hi) ELSE left
    IN  StripLoop(<< <<0, WrapIdx(length - StripParts(length) * 4)>> >>, 1, i)

\* lines 18 and 21: some Idx operation of the strip leaves the range of Idx
StripOverflows(length) ==
    LET res == StripSegments(length, StripParts(length))
    IN  \/ length - StripParts(length) * 4 < 0
        \/ StripParts(length) * 4 > IdxMax
        \/ \E i \in 1 .. Len(res) - 1 : res[i][1] + res[i][2] > IdxMax

\* segment_length without the early return for short sides
SegmentLengthAlwaysHalved(length, other) ==
    [overflow |-> FALSE, segments |-> SegmentQueue(<< <<0, length>> >>, <<>>)]

\* segment_length: the segments, and whether an Idx operation overflowed
SegmentLength(length, other) ==
    IF other <= 10 /\ length <= 10
    THEN [overflow |-> FALSE, segments |-> << <<0, length>> >>]
    ELSE IF other = 3
         THEN [overflow |-> StripOverflows(length),
               segments |-> StripSegments(length, StripParts(length))]
         ELSE [overflow |-> FALSE,
               segments |-> SegmentQueue(<< <<0, length>> >>, <<>>)]

\* BoardPos::merge_direction is not part of the sources: any of these rules
MergeRules == {"left_column_vertical", "top_row_horizontal", "horizontal", "vertical"}

MergeDirection(rule, pos) ==
    CASE rule = "left_column_vertical" ->
            IF Col(pos) = 0 THEN "Vertical" ELSE "Horizontal"
      [] rule = "top_row_horizontal" ->
            IF Row(pos) = 0 THEN "Horizontal" ELSE "Vertical"
      [] rule = "horizontal" -> "Horizontal"
      [] OTHER -> "Vertical"

\* partition_closed_sector
PartitionClosedSector(rule, pos, sz) ==
    LET short_side == Min2(Width(sz), Height(sz))
        long_side == Max2(Width(sz), Height(sz))
        upright == short_side = Width(sz)
        new_size(sh, l) == IF upright THEN <<sh, l>> ELSE <<l, sh>>
        new_pos(sh, l) == IF upright THEN BoardPos(sh, l) ELSE BoardPos(l, sh)
        merge_direction == IF upright THEN "Vertical" ELSE "Horizontal"
        make_sector(short, long_segment1, long_segment2) ==
            << <<pos, new_size(short, long_segment1), MergeDirection(rule, pos)>>,
               <<AddPos(pos, new_pos(0, long_segment1)), new_size(short, long_segment2),
                 merge_direction>> >>
    IN  CASE short_side = 5 /\ long_side = 10 -> make_sector(5, 6, 4)
          [] short_side = 5 /\ long_side = 9 -> make_sector(5, 5, 4)
          [] short_side = 7 /\ long_side = 9 -> make_sector(7, 5, 4)
          [] OTHER -> << <<pos, sz, MergeDirection(rule, pos)>> >>

\* lines 169-185: the table of partition_open_sector, <<>> for its last arm
OpenSplits(non_merge_axis, merge_axis) ==
    CASE non_merge_axis = 5 /\ merge_axis = 8 -> <<4, 4>>
      [] non_merge_axis = 5 /\ merge_axis = 10 -> <<6, 4>>
      [] non_merge_axis = 6 /\ merge_axis = 8 -> <<4, 4>>
      [] non_merge_axis = 6 /\ merge_axis = 10 -> <<6, 4>>
      [] non_merge_axis = 7 /\ merge_axis = 8 -> <<4, 4>>
      [] non_merge_axis = 7 /\ merge_axis = 10 -> <<6, 4>>
      [] non_merge_axis = 8 /\ merge_axis = 6 -> <<3, 3>>
      [] non_merge_axis = 8 /\ merge_axis = 8 -> <<4, 4>>
      [] non_merge_axis = 8 /\ merge_axis = 10 -> <<3, 3, 4>>
      [] non_merge_axis = 9 /\ merge_axis = 8 -> <<4, 4>>
      [] non_merge_axis = 9 /\ merge_axis = 10 -> <<6, 4>>
      [] non_merge_axis = 10 /\ merge_axis = 6 -> <<3, 3>>
      [] non_merge_axis = 10 /\ merge_axis = 8 -> <<4, 4>>
      [] non_merge_axis = 10 /\ merge_axis = 10 -> <<4, 3, 3>>
      [] OTHER -> <<>>

\* partition_open_sector
PartitionOpenSector(rule, pos, sz) ==
    LET merge_direction == MergeDirection(rule, pos)
        horizontal == merge_direction = "Horizontal"
        new_size(sh, l) == IF horizontal THEN <<l, sh>> ELSE <<sh, l>>
        new_pos(sh, l) == IF horizontal THEN BoardPos(l, sh) ELSE BoardPos(sh, l)
        merge_axis == IF horizontal THEN Width(sz) ELSE Height(sz)
        non_merge_axis == IF horizontal THEN Height(sz) ELSE Width(sz)
        splits == OpenSplits(non_merge_axis, merge_axis)
        make_sector ==
            << <<pos, new_size(non_merge_axis, splits[1]), merge_direction>>,
               <<AddPos(pos, new_pos(0, splits[1])), new_size(non_merge_axis, splits[2]),
                 merge_direction>> >>
        third ==
            << <<AddPos(pos, new_pos(0, splits[1] + splits[2])),
                 new_size(non_merge_axis, splits[3]), merge_direction>> >>
    IN  IF splits = <<>> THEN << <<pos, sz, MergeDirection(rule, pos)>> >>
        ELSE IF Len(splits) = 2 THEN make_sector
             ELSE make_sector \o third

\* partition_sector_further
PartitionSectorFurther(rule, pos, sz) ==
    IF pos = ZERO THEN PartitionClosedSector(rule, pos, sz)
    ELSE PartitionOpenSector(rule, pos, sz)

\* sectors_from_partitions: rows of vertical segments, each crossed with the
\* horizontal segments in their order; i and j are the row and the place in
\* the row the crossing starts at. Concat joins the sectors of the crossings
\* lo .. hi in their order (the left half before the right half)
SectorsFromPartitions(rule, horizontal, vertical, i, j) ==
    LET columns == Len(horizontal)
        first == (i - 1) * columns + j
        cells == [k \in 1 .. Len(vertical) * columns |->
                    LET row == ((k - 1) \div columns) + 1
                        col == ((k - 1) % columns) + 1
                    IN  PartitionSectorFurther(rule,
                                               BoardPos(horizontal[col][1], vertical[row][1]),
                                               <<horizontal[col][2], vertical[row][2]>>)]
        RECURSIVE Concat(_, _)
        Concat(lo, hi) ==
            IF lo > hi THEN <<>>
            ELSE IF lo = hi THEN cells[lo]
                 ELSE LET mid == (lo + hi) \div 2
                          left == Concat(lo, mid)
                      IN  IF Len(left) >= 0 THEN left \o Concat(mid + 1, hi) ELSE <<>>
    IN  Concat(first, Len(cells))

\* partition_size: the two segmentations and the sectors; checked selects
\* the build whose Idx arithmetic aborts on overflow instead of wrapping
PartitionSize(rule, checked, sz) ==
    LET h == SegmentLength(Width(sz), Height(sz))
        v == IF Width(sz) = Height(sz) THEN h ELSE SegmentLength(Height(sz), Width(sz))
    IN  IF checked /\ (h.overflow \/ v.overflow)
        THEN [stage |-> "aborted", size |-> sz, rule |-> rule, checked |-> checked,
              horizontal |-> <<>>, vertical |-> <<>>, sectors |-> <<>>]
        ELSE [stage |-> "done", size |-> sz, rule |-> rule, checked |-> checked,
              horizontal |-> h.segments, vertical |-> v.segments,
              sectors |-> SectorsFromPartitions(rule, h.segments, v.segments, 1, 1)]

\* a call of partition_size
Partition ==
    /\ part.stage = "call"
    /\ part' = PartitionSize(part.rule, part.checked, part.size)
    /\ UNCHANGED <<searchVars, cache, dncVars, call>>

-----------------------------------------------------------------------------
(* A stand-alone call of solve_internal_impl *)

\* nothing returned yet (`after` names how the loop was left, for the reader
\* of a trace; the caller sees only `some` and `graph`)
NoResult == [some |-> FALSE, graph |-> <<>>, after |-> "none"]

EmptyCache == <<>>

NoMerge ==
    [pos |-> None, size |-> <<0, 0>>, direction |-> "Horizontal", before |-> <<>>,
     after |-> <<>>, ok |-> FALSE]

NoPart ==
    [stage |-> "off", size |-> <<0, 0>>, rule |-> "horizontal", checked |-> FALSE,
     horizontal |-> <<>>, vertical |-> <<>>, sectors |-> <<>>]

\* no stand-alone function is called
NoCall == [fn |-> "none", stage |-> "off"]

StructuredModes ==
    { Closed(FALSE), Closed(TRUE), Stretched("Horizontal"), Stretched("Vertical"), Freeform }

TileSizes == (MinDim .. MaxDim) \X (MinDim .. MaxDim)

\* the boards searched in Basic mode
BasicSizes == { <<3, 3>>, <<3, 4>> }

BasicModes(sz) ==
    UNION { { Basic(dead, start) : start \in Positions(sz) \ dead } :
              dead \in { d \in SUBSET Positions(sz) : Cardinality(d) <= MaxDead } }

\* tiles beyond MaxDim: a stretched tile whose end-point chain leaves the
\* grid, and one whose end-point chain stays inside it
ExtraConfigs ==
    { <<<<5, 10>>, Stretched("Vertical")>>, <<<<10, 10>>, Stretched("Vertical")>> }

Configs ==
    (TileSizes \X StructuredModes)
        \cup UNION { { <<sz, m>> : m \in BasicModes(sz) } : sz \in BasicSizes }
        \cup ExtraConfigs

\* the caller's call
Call ==
    /\ pc = "idle"
    /\ dnc_pc = "off"
    /\ \E cfg \in Configs : SolveInternalImpl(cfg[1], cfg[2])
    /\ UNCHANGED <<dncVars, part, call>>

Init ==
    /\ size = <<0, 0>>
    /\ mode = Freeform
    /\ dead_squares = {}
    /\ end_point = None
    /\ start_pos = ZERO
    /\ use_cache = FALSE
    /\ predetermined_moves = <<>>
    /\ expected_move_count = 0
    /\ moves = <<>>
    /\ knight = ZERO
    /\ graph = <<>>
    /\ count = 0
    /\ pc = "idle"
    /\ returned = NoResult
    /\ cache = EmptyCache
    /\ board = <<>>
    /\ board_size = <<0, 0>>
    /\ tasks = <<>>
    /\ dnc_pc = "off"
    /\ merged = NoMerge
    /\ part = NoPart
    /\ call = NoCall

Next == Call \/ Iterate \/ SearchPanic \/ Return

Spec == Init /\ [][Next]_vars

\* the searches followed to their end: the 3 x 3 board from each of its
\* squares, a 3 x 4 tile in the structured modes, and the 5 x 10 stretched tile
LiveConfigs ==
    { <<<<3, 3>>, Basic({}, start)>> : start \in Positions(<<3, 3>>) }
        \cup { <<<<3, 4>>, Stretched("Horizontal")>>, <<<<3, 4>>, Freeform>>,
               <<<<5, 10>>, Stretched("Vertical")>> }

CallLive ==
    /\ pc = "idle"
    /\ dnc_pc = "off"
    /\ \E cfg \in LiveConfigs : SolveInternalImpl(cfg[1], cfg[2])
    /\ UNCHANGED <<dncVars, part, call>>

NextLive == CallLive \/ Iterate \/ SearchPanic \/ Return

\* the loop runs until it ends: an iteration that can be made is made
SpecLive == Init /\ [][NextLive]_vars /\ WF_vars(Iterate)

-----------------------------------------------------------------------------
(* A call of divide_and_conquer::solve *)

\* the boards handed to divide_and_conquer::solve: single tiles, two tiles
\* merged horizontally and vertically, four tiles, boards with a side of 3,
\* and the small boards main answers without a search
DncBoards ==
    { <<8, 8>>, <<5, 5>>, <<3, 3>>, <<7, 3>>, <<3, 7>>, <<16, 8>>, <<8, 16>>,
      <<13, 9>>, <<17, 9>>, <<16, 16>>, <<17, 17>>, <<11, 3>>, <<5, 20>>,
      <<1, 1>>, <<2, 5>>, <<2, 12>>, <<3, 5>>, <<6, 3>>, <<4, 4>> }

InitDnc ==
    /\ size = <<0, 0>>
    /\ mode = Freeform
    /\ dead_squares = {}
    /\ end_point = None
    /\ start_pos = ZERO
    /\ use_cache = FALSE
    /\ predetermined_moves = <<>>
    /\ expected_move_count = 0
    /\ moves = <<>>
    /\ knight = ZERO
    /\ graph = <<>>
    /\ count = 0
    /\ pc = "idle"
    /\ returned = NoResult
    /\ cache = EmptyCache
    /\ board = <<>>
    /\ board_size \in DncBoards
    /\ tasks = <<>>
    /\ dnc_pc = "start"
    /\ merged = NoMerge
    /\ part = NoPart
    /\ call = NoCall

NextDnc ==
    \/ DncSolve
    \/ DncDivide
    \/ DncTile
    \/ Iterate
    \/ SearchPanic
    \/ Return
    \/ DncInsert
    \/ DncMerge
    \/ DncReturn

SpecDnc == InitDnc /\ [][NextDnc]_vars

-----------------------------------------------------------------------------
(* A call of partition_size *)

\* the longest board side handed to partition_size
MaxPart == 24

\* how far from either end of Idx the translated coordinates lie
EdgeSpan == 2

PartSizes == (MinDim .. MaxPart) \X (MinDim .. MaxPart)

InitPart ==
    /\ size = <<0, 0>>
    /\ mode = Freeform
    /\ dead_squares = {}
    /\ end_point = None
    /\ start_pos = ZERO
    /\ use_cache = FALSE
    /\ predetermined_moves = <<>>
    /\ expected_move_count = 0
    /\ moves = <<>>
    /\ knight = ZERO
    /\ graph = <<>>
    /\ count = 0
    /\ pc = "idle"
    /\ returned = NoResult
    /\ cache = EmptyCache
    /\ board = <<>>
    /\ board_size = <<0, 0>>
    /\ tasks = <<>>
    /\ dnc_pc = "off"
    /\ merged = NoMerge
    /\ \E sz \in PartSizes, rule \in MergeRules, checked \in BOOLEAN :
          part = [stage |-> "call", size |-> sz, rule |-> rule, checked |-> checked,
                  horizontal |-> <<>>, vertical |-> <<>>, sectors |-> <<>>]
    /\ call = NoCall

NextPart == Partition

SpecPart == InitPart /\ [][NextPart]_vars

-----------------------------------------------------------------------------
(* Calls of the stand-alone functions *)

\* no search, no assembly and no partitioner is running
Idle ==
    /\ size = <<0, 0>>
    /\ mode = Freeform
    /\ dead_squares = {}
    /\ end_point = None
    /\ start_pos = ZERO
    /\ use_cache = FALSE
    /\ predetermined_moves = <<>>
    /\ expected_move_count = 0
    /\ moves = <<>>
    /\ knight = ZERO
    /\ graph = <<>>
    /\ count = 0
    /\ pc = "idle"
    /\ returned = NoResult
    /\ cache = EmptyCache
    /\ board = <<>>
    /\ board_size = <<0, 0>>
    /\ tasks = <<>>
    /\ dnc_pc = "off"
    /\ merged = NoMerge
    /\ part = NoPart

idleVars == <<searchVars, cache, dncVars, part>>

\* the coordinates within EdgeSpan of either end of Idx
EdgeCoords == (0 .. EdgeSpan) \cup ((IdxMax - EdgeSpan) .. IdxMax)

EdgeDeltas == (0 - EdgeSpan) .. EdgeSpan

\* BoardPos::try_translate, lines 57-74: its outcome in a build with
\* (checked) and without overflow checks
TryTranslateCall(checked, pos, col, row) ==
    IF ~InRange(Col(pos), col, IdxMax) \/ ~InRange(Row(pos), row, IdxMax)
    THEN [stage |-> "done", value |-> None]
    ELSE IF checked /\ (Col(pos) + col > IdxMax \/ Row(pos) + row > IdxMax)
         THEN [stage |-> "aborted", value |-> None]
         ELSE [stage |-> "done", value |-> TryTranslate(pos, col, row)]

CallTryTranslate ==
    /\ call.fn = "try_translate"
    /\ call.stage = "call"
    /\ LET r == TryTranslateCall(call.checked, call.pos, call.col, call.row)
       IN  call' = [call EXCEPT !.stage = r.stage, !.value = r.value]
    /\ UNCHANGED idleVars

InitTranslate ==
    /\ Idle
    /\ \E c \in EdgeCoords, r \in EdgeCoords, dc \in EdgeDeltas, dr \in EdgeDeltas,
          checked \in BOOLEAN :
          call = [fn |-> "try_translate", stage |-> "call", checked |-> checked,
                  pos |-> <<c, r>>, col |-> dc, row |-> dr, value |-> None]

NextTranslate == CallTryTranslate

SpecTranslate == InitTranslate /\ [][NextTranslate]_vars

-----------------------------------------------------------------------------
(* MoveGraph::to_board on the graph a search returned *)

\* lines 146-154: the squares with neither link set
ToBoardDeadSquares(g) == { p \in DOMAIN g : g[p].next = None /\ g[p].prev = None }

\* lines 161-169: the walk back from (0,0) along prev; it stops at a node
\* without prev or at the node whose prev is (0,0), and never stops once it
\* comes to a node it has already left (seen)
RECURSIVE FirstNode(_, _, _)
FirstNode(g, node, seen) ==
    IF g[node].prev = None \/ g[node].prev = ZERO
    THEN [stage |-> "found", node |-> node]
    ELSE IF g[node].prev \in seen
         THEN [stage |-> "diverges", node |-> node]
         ELSE FirstNode(g, g[node].prev, seen \cup {g[node].prev})

\* lines 182-192: the walk forward along next, numbering from i, until a
\* node without next or a square already numbered
RECURSIVE NumberForward(_, _, _, _)
NumberForward(g, b, node, i) ==
    LET pos == g[node].next
    IN  IF pos = None \/ b[pos] # 0 THEN b
        ELSE NumberForward(g, [b EXCEPT ![pos] = i], pos, i + 1)

\* MoveGraph::to_board, lines 145-197
ToBoard(g) ==
    LET first == FirstNode(g, ZERO, {ZERO})
        empty == [p \in DOMAIN g |-> 0]
        node == IF g[first.node].prev # None THEN g[first.node].prev ELSE first.node
    IN  IF first.stage = "diverges"
        THEN [stage |-> "diverges", dead_squares |-> ToBoardDeadSquares(g), board |-> empty]
        ELSE [stage |-> "done", dead_squares |-> ToBoardDeadSquares(g),
              board |-> NumberForward(g, [empty EXCEPT ![node] = 1], node, 2)]

\* the caller turns the graph it got back into a board
CallToBoard ==
    /\ pc = "returned"
    /\ call = NoCall
    /\ LET r == ToBoard(returned.graph)
       IN  call' = [fn |-> "to_board", stage |-> r.stage,
                    dead_squares |-> r.dead_squares, board |-> r.board]
    /\ UNCHANGED idleVars

NextBoard == Call \/ Iterate \/ SearchPanic \/ Return \/ CallToBoard

SpecBoard == Init /\ [][NextBoard]_vars

-----------------------------------------------------------------------------
(* Tile solves and base-tile lookups in a row: the stretched cache *)

\* bases.rs, lines 31-36: the squares of the 4x10 base tile after (0,0)
BaseSequence ==
    << <<2, 1>>, <<3, 3>>, <<1, 2>>, <<3, 1>>, <<1, 0>>, <<0, 2>>, <<2, 3>>, <<0, 4>>,
       <<2, 5>>, <<3, 7>>, <<2, 9>>, <<0, 8>>, <<1, 6>>, <<3, 5>>, <<1, 4>>, <<0, 6>>,
       <<1, 8>>, <<3, 9>>, <<2, 7>>, <<1, 5>>, <<3, 6>>, <<2, 8>>, <<0, 9>>, <<1, 7>>,
       <<3, 8>>, <<1, 9>>, <<0, 7>>, <<2, 6>>, <<3, 4>>, <<2, 2>>, <<3, 0>>, <<1, 1>>,
       <<0, 3>>, <<2, 4>>, <<0, 5>>, <<1, 3>>, <<3, 2>>, <<2, 0>>, <<0, 1>> >>

\* bases.rs, lines 38-43: the squares from the i-th on are linked up behind prev
\* (the first half of the squares before the second)
LinkSequence(g, prev, i) ==
    LET RECURSIVE LinkRange(_, _, _, _)
        LinkRange(h, before, lo, hi) ==
            IF lo > hi THEN h
            ELSE IF lo = hi
                 THEN SetPrev(SetNext(h, before, BaseSequence[lo]), BaseSequence[lo], before)
                 ELSE LET mid == (lo + hi) \div 2
                          left == LinkRange(h, before, lo, mid)
                      IN  IF DOMAIN left = DOMAIN h
                          THEN LinkRange(left, BaseSequence[mid], mid + 1, hi)
                          ELSE left
    IN  LinkRange(g, prev, i, Len(BaseSequence))

\* get_4_by_10: the cache after the call
Get4By10(c, direction) ==
    LET sz == IF direction = "Horizontal" THEN <<4, 10>> ELSE <<10, 4>>
        result == LinkSequence(NewGraph(<<4, 10>>), ZERO, 1)
    IN  IF IsCached(c, sz, direction) THEN c
        ELSE InsertStretchedCache(
                 InsertStretchedCache(c, <<4, 10>>, "Horizontal", result),
                 <<10, 4>>, "Vertical", Flip(result))

\* bases::get: whether a base tile exists for the request
HasBaseTile(direction, sz) ==
    \/ direction = "Horizontal" /\ sz = <<4, 10>>
    \/ direction = "Vertical" /\ sz = <<10, 4>>

\* the tiles solved and looked up one after the other
CacheSizes == { <<3, 4>>, <<4, 3>>, <<4, 10>>, <<10, 4>> }

CacheConfigs ==
    { <<<<3, 4>>, Stretched("Horizontal")>>, <<<<3, 4>>, Freeform>>,
      <<<<4, 3>>, Stretched("Vertical")>>, <<<<4, 5>>, Stretched("Horizontal")>>,
      <<<<5, 4>>, Stretched("Vertical")>>, <<<<8, 3>>, Stretched("Horizontal")>>,
      <<<<8, 3>>, Freeform>> }

\* a call of solve_internal while no search is running
SolveTile ==
    /\ pc \in {"idle", "returned"}
    /\ dnc_pc = "off"
    /\ \E cfg \in CacheConfigs : SolveInternalImpl(cfg[1], cfg[2])
    /\ UNCHANGED <<dncVars, part, call>>

\* a call of bases::get while no search is running
BaseTileLookup ==
    /\ pc \in {"idle", "returned"}
    /\ dnc_pc = "off"
    /\ \E direction \in {"Horizontal", "Vertical"}, sz \in CacheSizes :
          /\ cache' = IF HasBaseTile(direction, sz) THEN Get4By10(cache, direction)
                      ELSE cache
          /\ call' = [fn |-> "get", stage |-> "done", direction |-> direction,
                      size |-> sz, some |-> HasBaseTile(direction, sz)]
    /\ UNCHANGED <<searchVars, dncVars, part>>

NextCache == SolveTile \/ Iterate \/ Return \/ BaseTileLookup

SpecCache == Init /\ [][NextCache]_vars

-----------------------------------------------------------------------------
(* A stretched solution flipped, and the transposed tile searched afresh *)

\* the tiles searched in Stretched(Horizontal) mode and then flipped
FlipSizes == { <<4, 5>>, <<3, 8>>, <<8, 3>>, <<6, 8>> }

\* solve_internal(size, Stretched(Horizontal)) on an empty cache
SolveHorizontal ==
    /\ pc = "idle"
    /\ dnc_pc = "off"
    /\ \E sz \in FlipSizes : SolveInternalImpl(sz, Stretched("Horizontal"))
    /\ UNCHANGED <<dncVars, part, call>>

\* lines 103-107: the solution just cached is flipped for the transposed size
FlipCached ==
    /\ pc = "returned"
    /\ call = NoCall
    /\ IsCached(cache, size, "Horizontal")
    /\ call' = [fn |-> "flip", stage |-> "done", size |-> FlipSize(size),
                graph |-> Flip(cache[CacheKey(size, "Horizontal")]),
                after |-> returned.after]
    /\ UNCHANGED idleVars

\* lines 112-127: the transposed tile is searched in Stretched(Vertical) mode
\* as it is when neither lookup of lines 98-110 finds an entry
SearchTransposed ==
    /\ pc = "returned"
    /\ call.fn = "flip"
    /\ mode = Stretched("Horizontal")
    /\ BeginSearch(call.size, Stretched("Vertical"))
    /\ UNCHANGED <<dncVars, part, call>>

NextFlip == SolveHorizontal \/ Iterate \/ Return \/ FlipCached \/ SearchTransposed

SpecFlip == Init /\ [][NextFlip]_vars

-----------------------------------------------------------------------------
(* CornerRadius::try_from: board/corner_radius.rs *)

\* char::to_digit(10) on the decimal digits
DigitValue ==
    ("0" :> 0) @@ ("1" :> 1) @@ ("2" :> 2) @@ ("3" :> 3) @@ ("4" :> 4) @@
    ("5" :> 5) @@ ("6" :> 6) @@ ("7" :> 7) @@ ("8" :> 8) @@ ("9" :> 9)

IsNumeric(c) == c \in DOMAIN DigitValue

IsWhitespace(c) == c = " "

\* Corner::from((v, h)), corner.rs
Corner(buf) == [v |-> buf[1], h |-> buf[2]]

ParseError(msg) == [kind |-> "Err", error |-> msg, corners |-> <<>>]

\* lines 188-192: one corner for all four, or four corners in the order
\* top left, top right, bottom right, bottom left
CornerRadiusOfSwapped(corners) ==
    IF Len(corners) = 1
    THEN [kind |-> "Ok", error |-> "",
          corners |-> <<corners[1], corners[1], corners[1], corners[1]>>]
    ELSE IF Len(corners) = 4
         THEN [kind |-> "Ok", error |-> "",
               corners |-> <<corners[1], corners[2], corners[4], corners[3]>>]
         ELSE ParseError("Invalid number of corners - expected 1 or 4")

CornerRadiusOf(corners) ==
    IF Len(corners) = 1
    THEN [kind |-> "Ok", error |-> "",
          corners |-> <<corners[1], corners[1], corners[1], corners[1]>>]
    ELSE IF Len(corners) = 4
         THEN [kind |-> "Ok", error |-> "",
               corners |-> <<corners[1], corners[2], corners[3], corners[4]>>]
         ELSE ParseError("Invalid number of corners - expected 1 or 4")

\* lines 182-186: the end of the input
ParseEnd(state, buf, corners) ==
    IF state = "Number" THEN CornerRadiusOf(Append(corners, Corner(buf)))
    ELSE IF state \in {"Start", "After"} THEN CornerRadiusOf(corners)
    ELSE ParseError("Unexpected end of input")

\* the parser between two characters: its state, the number buffer, the
\* corners read so far, and the value returned early, if any
Parser(state, buf, corners) ==
    [state |-> state, buf |-> buf, corners |-> corners, returned |-> FALSE,
     result |-> ParseError("")]

ParserReturns(r, result) == [r EXCEPT !.returned = TRUE, !.result = result]

\* the loop body of lines 117-180 on the character c, up to the point where
\* c is consumed: a state that only peeks at c hands it on to its successor;
\* a digit that takes the buffer past Idx aborts a checked build and wraps
\* otherwise
RECURSIVE ParseChar(_, _, _)
ParseChar(checked, r, c) ==
    IF r.returned THEN r
    ELSE
    LET state == r.state
        buf == r.buf
        stay(st) == ParseChar(checked, [r EXCEPT !.state = st], c)
        skip(st) == [r EXCEPT !.state = st]
        fail(msg) == ParserReturns(r, ParseError(msg))
        digit(st, field) ==
            LET val == buf[field] * 10 + DigitValue[c]
                new == IF field = 1
                       THEN IF st = "Number"
                            THEN <<val % (IdxMax + 1), val % (IdxMax + 1)>>
                            ELSE <<val % (IdxMax + 1), buf[2]>>
                       ELSE <<buf[1], val % (IdxMax + 1)>>
            IN  IF checked /\ val > IdxMax
                THEN ParserReturns(r, [kind |-> "aborted", error |-> "",
                                       corners |-> <<>>])
                ELSE [r EXCEPT !.state = st, !.buf = new]
    IN  CASE state \in {"Start", "Between"} ->
                IF IsNumeric(c) THEN stay("Number")
                ELSE IF c = "(" THEN skip("GroupOpen")
                ELSE IF IsWhitespace(c) THEN skip(state)
                ELSE fail("Invalid character in corner radius")
          [] state = "After" ->
                IF c = "," THEN skip("Between")
                ELSE IF c = "(" \/ IsNumeric(c) THEN stay("Between")
                ELSE IF IsWhitespace(c) THEN skip(state)
                ELSE fail("Expected whitespace or ','")
          [] state = "Number" ->
                IF IsNumeric(c) THEN digit("Number", 1)
                ELSE ParseChar(checked,
                               Parser("After", <<0, 0>>,
                                      Append(r.corners, Corner(buf))), c)
          [] state = "GroupOpen" ->
                IF IsNumeric(c) THEN stay("Group0")
                ELSE IF IsWhitespace(c) THEN skip(state)
                ELSE fail("Expected digit or whitespace")
          [] state = "GroupBetween" ->
                IF c = "," THEN skip("Group1")
                ELSE IF IsNumeric(c) THEN stay("Group1")
                ELSE IF c = ")"
                     THEN ParseChar(checked,
                                    Parser("GroupEnd", <<buf[1], buf[1]>>, r.corners), c)
                ELSE IF IsWhitespace(c) THEN skip(state)
                ELSE fail("Expected digit, whitespace or ','")
          [] state = "Group0" ->
                IF IsNumeric(c) THEN digit("Group0", 1)
                ELSE IF c = "," \/ IsWhitespace(c) THEN skip("GroupBetween")
                ELSE fail("Expected digit or ','")
          [] state = "Group1" ->
                IF IsNumeric(c) THEN digit("Group1", 2)
                ELSE stay("GroupEnd")
          [] state = "GroupEnd" ->
                IF c = ")"
                THEN Parser("After", <<0, 0>>, Append(r.corners, Corner(buf)))
                ELSE IF IsWhitespace(c) THEN skip(state)
                ELSE fail("Expected ')' or whitespace")

\* the loop of lines 117-180 over the characters s[lo] .. s[hi], in order
RECURSIVE ParseRange(_, _, _, _, _)
ParseRange(checked, r, s, lo, hi) ==
    IF lo > hi THEN r
    ELSE IF lo = hi THEN ParseChar(checked, r, s[lo])
    ELSE LET mid == (lo + hi) \div 2
             left == ParseRange(checked, r, s, lo, mid)
         IN  IF left.returned THEN left
             ELSE ParseRange(checked, left, s, mid + 1, hi)

\* CornerRadius::try_from, lines 102-194
CornerRadiusTryFrom(checked, value) ==
    LET r == ParseRange(checked, Parser("Start", <<0, 0>>, <<>>), value, 1, Len(value))
    IN  IF r.returned THEN r.result ELSE ParseEnd(r.state, r.buf, r.corners)

\* the decimal digits of n, as the caller writes them
RECURSIVE Digits(_)
Digits(n) ==
    LET last == CHOOSE c \in DOMAIN DigitValue : DigitValue[c] = n % 10
    IN  IF n < 10 THEN <<last>> ELSE Append(Digits(n \div 10), last)

\* a corner value as text: a bare number, or a bracketed pair
CornerText(corner, inner) ==
    IF corner.bare THEN Digits(corner.v)
    ELSE <<"(">> \o Digits(corner.v) \o inner \o Digits(corner.h) \o <<")">>

RECURSIVE CornersText(_, _, _)
CornersText(corners, sep, inner) ==
    IF corners = <<>> THEN <<>>
    ELSE IF Len(corners) = 1 THEN CornerText(corners[1], inner)
    ELSE CornerText(corners[1], inner) \o sep \o CornersText(Tail(corners), sep, inner)

\* the longest list of corner values written
MaxCorners == 5

CornerValues ==
    { [bare |-> TRUE, v |-> 7, h |-> 7], [bare |-> TRUE, v |-> IdxMax, h |-> IdxMax],
      [bare |-> FALSE, v |-> 1, h |-> 20] }

CornerLists == UNION { [1 .. k -> CornerValues] : k \in 0 .. MaxCorners }

Separators == { <<" ">>, <<",">>, <<",", " ">>, <<" ", ",", " ">> }

\* the inputs of test_corner_radius_parsing that are no list of corner values
BrokenTexts ==
    { <<"1", " ", "2", " ", "3", " ", "4", " ", "5", ",">>,
      <<"(", "1", " ", "2", " ", "3", " ", "4", " ", "5", " ", "6">>,
      <<"(", ")">>, <<"(">>, <<"1", "+">> }

CallCornerRadius ==
    /\ call.fn = "corner_radius"
    /\ call.stage = "call"
    /\ call' = [call EXCEPT !.stage = "done",
                            !.result = CornerRadiusTryFrom(call.checked, call.input)]
    /\ UNCHANGED idleVars

InitCorner ==
    /\ Idle
    /\ \E checked \in BOOLEAN :
          \/ \E corners \in CornerLists, sep \in Separators,
                inner \in Separators \ { <<" ", ",", " ">> } :
                call = [fn |-> "corner_radius", stage |-> "call", checked |-> checked,
                        listed |-> TRUE, corners |-> corners,
                        input |-> CornersText(corners, sep, inner),
                        result |-> ParseError("")]
          \/ \E text \in BrokenTexts :
                call = [fn |-> "corner_radius", stage |-> "call", checked |-> checked,
                        listed |-> FALSE, corners |-> <<>>, input |-> text,
                        result |-> ParseError("")]

NextCorner == CallCornerRadius

SpecCorner == InitCorner /\ [][NextCorner]_vars

-----------------------------------------------------------------------------
(* Column names: alphabetize and BoardPos::try_from in board_pos.rs *)

\* the characters C('A') + rem can give, rem in 0..25
Alphabet ==
    << "A", "B", "C", "D", "E", "F", "G", "H", "I", "J", "K", "L", "M",
       "N", "O", "P", "Q", "R", "S", "T", "U", "V", "W", "X", "Y", "Z" >>

\* C(c) - 'A' for a capital letter c
LetterIndex(c) == (CHOOSE i \in 1 .. Len(Alphabet) : Alphabet[i] = c) - 1

IsCapital(c) == \E i \in 1 .. Len(Alphabet) : Alphabet[i] = c

\* lines 92-97: the loop of alphabetize; the characters come out last first
RECURSIVE AlphabetizeLoop(_)
AlphabetizeLoop(val) ==
    IF val > 0
    THEN <<Alphabet[((val - 1) % 26) + 1]>> \o AlphabetizeLoop((val - 1) \div 26)
    ELSE <<>>

Reverse(s) == [i \in 1 .. Len(s) |-> s[Len(s) + 1 - i]]

\* alphabetize, lines 90-108
Alphabetize(val) ==
    LET buf == AlphabetizeLoop(val)
    IN  Reverse(IF Len(buf) = 0 THEN <<"A">> ELSE buf)

\* the loop of BoardPos::try_from (lines 160-170) from the i-th character on;
\* -1 stands for a col or row that is still None
RECURSIVE TryFromLoop(_, _, _, _)
TryFromLoop(value, i, col, row) ==
    IF i > Len(value) THEN [ok |-> TRUE, col |-> col, row |-> row]
    ELSE LET c == value[i]
         IN  IF row = -1 /\ IsCapital(c)
             THEN TryFromLoop(value, i + 1,
                              (IF col = -1 THEN 0 ELSE col) * 26 + LetterIndex(c) + 1, row)
             ELSE IF col # -1 /\ row = -1 /\ c = "-"
             THEN TryFromLoop(value, i + 1, col, 0)
             ELSE IF col # -1 /\ IsNumeric(c)
             THEN TryFromLoop(value, i + 1, col,
                              (IF row = -1 THEN 0 ELSE row) * 10 + DigitValue[c])
             ELSE [ok |-> FALSE, col |-> col, row |-> row]

\* BoardPos::try_from(&str), lines 152-179: the position, None for an error
BoardPosTryFrom(value) ==
    LET r == TryFromLoop(value, 1, -1, -1)
    IN  IF ~r.ok \/ r.col = -1 \/ r.row = -1 \/ r.row < 1 THEN None
        ELSE BoardPos(r.col - 1, r.row - 1)

\* the columns named: 1..MaxName and the columns of test_alphabetize
MaxName == 100

NamedColumns == (1 .. MaxName) \cup {18278, IdxMax}

\* the column is named and the name, followed by "-1", is parsed
CallAlphabetize ==
    /\ call.fn = "alphabetize"
    /\ call.stage = "call"
    /\ LET name == Alphabetize(call.val)
       IN  call' = [call EXCEPT !.stage = "done", !.name = name,
                                !.pos = BoardPosTryFrom(name \o <<"-", "1">>)]
    /\ UNCHANGED idleVars

InitName ==
    /\ Idle
    /\ \E val \in NamedColumns :
          call = [fn |-> "alphabetize", stage |-> "call", val |-> val,
                  name |-> <<>>, pos |-> None]

NextName == CallAlphabetize

SpecName == InitName /\ [][NextName]_vars

-----------------------------------------------------------------------------
(* split_length, and the halving loop of segment_length: partitions.rs *)

\* the longest length the halving loop is followed for
MaxLength == 64

\* the lengths split: the short ones and the longest an Idx holds
SplitLengths == (0 .. MaxLength) \cup { IdxMax - 1, IdxMax }

\* one pass of the loop of lines 33-45: the front of the queue is split, a
\* part longer than 10 goes back to the queue, any other to the segments
SegmentQueueStep(queue, segments) ==
    LET offset == queue[1][1]
        length == queue[1][2]
        split == SplitLength(length)
        first == split[1]
        second == split[2]
        q1 == IF first > 10 THEN Tail1(queue) \o << <<offset, first>> >>
              ELSE Tail1(queue)
        s1 == IF first > 10 THEN segments ELSE segments \o << <<offset, first>> >>
        q2 == IF second > 10 THEN q1 \o << <<offset + first, second>> >> ELSE q1
        s2 == IF second > 10 THEN s1 ELSE s1 \o << <<offset + first, second>> >>
    IN  [queue |-> q2, segments |-> s2, length |-> length, split |-> split]

\* a call of split_length
CallSplitLength ==
    /\ call.fn = "split_length"
    /\ call.stage = "call"
    /\ call' = [call EXCEPT !.stage = "done", !.split = SplitLength(call.length)]
    /\ UNCHANGED idleVars

\* one pass of the loop of segment_length; the loop ends on an empty queue
SegmentLoop ==
    /\ call.fn = "segment_length"
    /\ call.stage = "loop"
    /\ LET r == SegmentQueueStep(call.queue, call.segments)
       IN  call' = [call EXCEPT !.stage = IF r.queue = <<>> THEN "done" ELSE "loop",
                                !.queue = r.queue, !.segments = r.segments,
                                !.split = r.split, !.length = r.length,
                                !.passes = @ + 1]
    /\ UNCHANGED idleVars

InitSplit ==
    /\ Idle
    /\ \/ \E n \in SplitLengths :
             call = [fn |-> "split_length", stage |-> "call", length |-> n,
                     split |-> <<0, 0>>]
       \/ \E n \in 0 .. MaxLength :
             call = [fn |-> "segment_length", stage |-> "loop", whole |-> n,
                     queue |-> << <<0, n>> >>, segments |-> <<>>, length |-> 0,
                     split |-> <<0, 0>>, passes |-> 0]

NextSplit == CallSplitLength \/ SegmentLoop

\* the loop of segment_length makes its next pass while the queue holds a
\* length
SpecSplit == InitSplit /\ [][NextSplit]_vars /\ WF_vars(SegmentLoop)

-----------------------------------------------------------------------------
(* Graph views and their iterators: move_graph/move_graph_data.rs,        *)
(* node_ref.rs, nodes_iterator.rs, board/matrix2d.rs                      *)

\* the deepest nesting of views followed
MaxViewDepth == 2

\* the largest side of a rectangle iterated
MaxSection == 3

\* the searches whose graph the views are taken of
ViewConfigs == { <<<<3, 4>>, Basic({}, ZERO)>>, <<<<4, 3>>, Basic({}, ZERO)>> }

\* the rectangles a Section or ReverseSection view is made of
ViewSections ==
    { <<<<0, 0>>, <<2, 2>>>>, <<<<1, 0>>, <<2, 3>>>>, <<<<1, 1>>, <<2, 2>>>> }

\* the rectangles iterated: <<start, size>>
Rectangles == ((0 .. 1) \X (0 .. 1)) \X ((1 .. MaxSection) \X (1 .. MaxSection))

\* MoveGraphData::Direct(matrix)
Direct(matrix) == [kind |-> "Direct", of |-> matrix, start |-> ZERO, size |-> <<0, 0>>]

\* MoveGraphData::Ref, ReverseRef, Section and ReverseSection over the
\* graph g (start and size are read by the two section variants only)
View(kind, g, start, sz) == [kind |-> kind, of |-> g, start |-> start, size |-> sz]

\* NodeRef::Direct(node) and NodeRef::Reverse(node); ok is FALSE where the
\* read that should have produced the reference panicked instead
NodeRef(pos, node, reversed) ==
    [ok |-> TRUE, pos |-> pos, node |-> node, reversed |-> reversed]

NoNodeRef == [ok |-> FALSE, pos |-> None, node |-> Node(None, None), reversed |-> FALSE]

\* NodeRef::next
NodeRefNext(r) == IF r.reversed THEN r.node.prev ELSE r.node.next

\* NodeRef::prev
NodeRefPrev(r) == IF r.reversed THEN r.node.next ELSE r.node.prev

\* a reversal that hands the reference back as it got it
NodeRefReverseKept(r) == r

\* NodeRef::reverse
NodeRefReverse(r) == IF r.ok THEN [r EXCEPT !.reversed = ~@] ELSE r

\* Node::reverse
NodeReverse(node) == Node(node.prev, node.next)

\* MoveGraphData::at, and MoveGraph::section_node with its bounds check
RECURSIVE At(_, _)
At(v, pos) ==
    CASE v.kind = "Direct" ->
            IF InGrid(v.of, pos) THEN NodeRef(pos, v.of[pos], FALSE) ELSE NoNodeRef
      [] v.kind = "Ref" -> At(v.of, pos)
      [] v.kind = "ReverseRef" -> NodeRefReverse(At(v.of, pos))
      [] v.kind = "Section" ->
            IF ~Fits(v.size, pos) THEN NoNodeRef ELSE At(v.of, AddPos(pos, v.start))
      [] v.kind = "ReverseSection" ->
            IF ~Fits(v.size, pos) THEN NoNodeRef
            ELSE NodeRefReverse(At(v.of, AddPos(pos, v.start)))

\* MoveGraph::reverse
ReverseGraph(v) ==
    CASE v.kind = "Direct" -> Direct([p \in DOMAIN v.of |-> NodeReverse(v.of[p])])
      [] v.kind = "Ref" -> [v EXCEPT !.kind = "ReverseRef"]
      [] v.kind = "ReverseRef" -> [v EXCEPT !.kind = "Ref"]
      [] v.kind = "Section" -> [v EXCEPT !.kind = "ReverseSection"]
      [] v.kind = "ReverseSection" -> [v EXCEPT !.kind = "Section"]

\* BoardSize's `>`: partial_cmp gives Greater when neither side is smaller
\* and one is greater
SizeGreater(a, b) ==
    /\ Width(a) >= Width(b)
    /\ Height(a) >= Height(b)
    /\ a # b

NoIter ==
    [ok |-> FALSE, matrix |-> <<>>, col |-> 0, row |-> 0, start |-> ZERO,
     size |-> <<0, 0>>, is_reversed |-> FALSE]

\* MoveGraphData::iter_section: the Matrix2DIterator of the owning storage
\* (Matrix2D::iter_section) wrapped into a NodesIterator, or a panic
RECURSIVE IterSection(_, _, _)
IterSection(v, start, sz) ==
    CASE v.kind = "Direct" ->
            [ok |-> TRUE, matrix |-> v.of, col |-> Col(start), row |-> Row(start),
             start |-> start, size |-> sz, is_reversed |-> FALSE]
      [] v.kind = "Ref" -> IterSection(v.of, start, sz)
      [] v.kind = "ReverseRef" ->
            LET it == IterSection(v.of, start, sz)
            IN  IF it.ok THEN [it EXCEPT !.is_reversed = ~@] ELSE it
      [] v.kind = "Section" ->
            IF SizeGreater(v.size, sz) THEN IterSection(v.of, AddPos(start, v.start), sz)
            ELSE NoIter
      [] v.kind = "ReverseSection" ->
            IF SizeGreater(v.size, sz)
            THEN LET it == IterSection(v.of, AddPos(start, v.start), sz)
                 IN  IF it.ok THEN [it EXCEPT !.is_reversed = ~@] ELSE it
            ELSE NoIter

\* Matrix2D::size of the storage
MatrixSize(matrix) ==
    <<Cardinality({ p[1] : p \in DOMAIN matrix }), Cardinality({ p[2] : p \in DOMAIN matrix })>>

\* the extent of a view: the section it was made of, or the whole storage
RECURSIVE ViewSize(_)
ViewSize(v) ==
    CASE v.kind = "Direct" -> MatrixSize(v.of)
      [] v.kind \in {"Ref", "ReverseRef"} -> ViewSize(v.of)
      [] v.kind \in {"Section", "ReverseSection"} -> v.size

\* into_iter of &MoveGraphData, which MoveGraph::nodes hands out:
\* Matrix2D::iter for the owning storage, iter_section of the graph below
\* for a section
RECURSIVE IntoIter(_)
IntoIter(v) ==
    CASE v.kind = "Direct" ->
            [ok |-> TRUE, matrix |-> v.of, col |-> 0, row |-> 0, start |-> ZERO,
             size |-> MatrixSize(v.of), is_reversed |-> FALSE]
      [] v.kind = "Ref" -> IntoIter(v.of)
      [] v.kind = "ReverseRef" ->
            LET it == IntoIter(v.of)
            IN  IF it.ok THEN [it EXCEPT !.is_reversed = ~@] ELSE it
      [] v.kind = "Section" -> IterSection(v.of, v.start, v.size)
      [] v.kind = "ReverseSection" ->
            LET it == IterSection(v.of, v.start, v.size)
            IN  IF it.ok THEN [it EXCEPT !.is_reversed = ~@] ELSE it

\* lines 119-124 of Matrix2DIterator::next: the column after it.col
NextColumn(it) ==
    (it.col + 1) * (IF it.col + 1 = Width(it.size) + Col(it.start) THEN 0 ELSE 1)

\* NodesIterator::next over Matrix2DIterator::next: None at the end row, a
\* panic of Matrix2D::at outside the grid, or the node and the iterator
\* moved on
NodesIteratorNext(it) ==
    IF it.row = Height(it.size) + Row(it.start)
    THEN [stage |-> "none", item |-> NoNodeRef, iter |-> it]
    ELSE IF ~InGrid(it.matrix, <<it.col, it.row>>)
         THEN [stage |-> "panic", item |-> NoNodeRef, iter |-> it]
         ELSE LET col == NextColumn(it)
              IN  [stage |-> "some",
                   item |-> NodeRef(<<it.col, it.row>>, it.matrix[<<it.col, it.row>>],
                                    it.is_reversed),
                   iter |-> [it EXCEPT !.col = col,
                                       !.row = IF col = 0 THEN @ + 1 ELSE @]]

\* the caller's search
CallView ==
    /\ pc = "idle"
    /\ dnc_pc = "off"
    /\ \E cfg \in ViewConfigs : SolveInternalImpl(cfg[1], cfg[2])
    /\ UNCHANGED <<dncVars, part, call>>

\* the graph the search returned, as its owner holds it
TakeGraph ==
    /\ pc = "returned"
    /\ returned.after = "success"
    /\ call = NoCall
    /\ call' = [fn |-> "view", stage |-> "view", view |-> Direct(returned.graph),
                before |-> Direct(returned.graph),
                original |-> Direct(returned.graph), reversals |-> 0, depth |-> 0,
                want |-> <<ZERO, <<0, 0>>>>, iter |-> NoIter, yielded |-> <<>>]
    /\ UNCHANGED idleVars

\* a view of the graph at hand: MoveGraph::ref_to, or one of the other
\* variants of MoveGraphData
WrapView ==
    /\ call.fn = "view"
    /\ call.stage = "view"
    /\ call.reversals = 0
    /\ call.depth < MaxViewDepth
    /\ \/ \E kind \in {"Ref", "ReverseRef"} :
             call' = [call EXCEPT !.view = View(kind, call.view, ZERO, <<0, 0>>),
                                  !.before = View(kind, call.view, ZERO, <<0, 0>>),
                                  !.original = View(kind, call.view, ZERO, <<0, 0>>),
                                  !.depth = @ + 1]
       \/ \E kind \in {"Section", "ReverseSection"}, s \in ViewSections :
             call' = [call EXCEPT !.view = View(kind, call.view, s[1], s[2]),
                                  !.before = View(kind, call.view, s[1], s[2]),
                                  !.original = View(kind, call.view, s[1], s[2]),
                                  !.depth = @ + 1]
    /\ UNCHANGED idleVars

\* MoveGraph::reverse on the graph at hand, at most twice in a row
ReverseView ==
    /\ call.fn = "view"
    /\ call.stage = "view"
    /\ call.reversals < 2
    /\ call' = [call EXCEPT !.view = ReverseGraph(call.view),
                            !.before = call.view,
                            !.reversals = @ + 1]
    /\ UNCHANGED idleVars

\* iter_section on the graph at hand
StartIter ==
    /\ call.fn = "view"
    /\ call.stage = "view"
    /\ \E r \in Rectangles :
          LET it == IterSection(call.view, r[1], r[2])
          IN  call' = [call EXCEPT !.stage = IF it.ok THEN "iterating" ELSE "panicked",
                                   !.want = r, !.iter = it]
    /\ UNCHANGED idleVars

\* MoveGraph::nodes on the graph at hand
StartNodes ==
    /\ call.fn = "view"
    /\ call.stage = "view"
    /\ LET it == IntoIter(call.view)
       IN  call' = [call EXCEPT !.stage = IF it.ok THEN "iterating" ELSE "panicked",
                                !.want = <<ZERO, ViewSize(call.view)>>, !.iter = it]
    /\ UNCHANGED idleVars

\* one call of next on the iterator
IterNext ==
    /\ call.fn = "view"
    /\ call.stage = "iterating"
    /\ LET r == NodesIteratorNext(call.iter)
       IN  call' = [call EXCEPT !.stage = CASE r.stage = "some" -> "iterating"
                                            [] r.stage = "none" -> "done"
                                            [] r.stage = "panic" -> "panicked",
                                !.iter = r.iter,
                                !.yielded = IF r.stage = "some" THEN Append(@, r.item)
                                            ELSE @]
    /\ UNCHANGED idleVars

NextView ==
    CallView \/ Iterate \/ Return \/ TakeGraph \/ WrapView \/ ReverseView \/ StartIter
        \/ StartNodes \/ IterNext

SpecView == Init /\ [][NextView]_vars

-----------------------------------------------------------------------------
(* Properties of the search *)

\* the squares met by following next from pos, at most n of them; the walk
\* ends early at an unset link or outside the graph (the first half of a
\* walk is followed to its end before the second is begun)
RECURSIVE Walk(_, _, _)
Walk(g, pos, n) ==
    IF n = 0 \/ pos = None \/ pos \notin DOMAIN g THEN <<>>
    ELSE IF n = 1 THEN <<pos>>
         ELSE LET half == n \div 2
                  first == Walk(g, pos, half)
              IN  IF Len(first) < half THEN first
                  ELSE first \o Walk(g, g[first[half]].next, n - half)

Squares(w) == { w[i] : i \in 1 .. Len(w) }

\* the search has left its loop after the last move
Succeeded == pc = "success" \/ (pc = "returned" /\ returned.after = "success")

\* C1: a closed-mode search that succeeds on a WxH board with k dead squares
\* leaves a graph in which following next from the start visits exactly
\* W*H - k distinct squares, none of them dead, and then returns to the start.
ClosedSearchIsCycle ==
    (Succeeded /\ mode.kind = "Closed") =>
        LET n == Width(size) * Height(size) - Cardinality(dead_squares)
            w == Walk(graph, start_pos, n + 1)
        IN  /\ Len(w) = n + 1
            /\ w[n + 1] = start_pos
            /\ Cardinality({ w[i] : i \in 1 .. n }) = n
            /\ \A i \in 1 .. n : w[i] \in Positions(size) \ dead_squares

\* a closed search that skips the corner has succeeded
ClosedSearchSucceeded ==
    /\ pc = "returned"
    /\ returned.after = "success"
    /\ mode.kind = "Closed"
    /\ Cardinality(dead_squares) = 1
    /\ graph[start_pos].prev \notin {None, start_pos}

\* the end square the stretched mode designates for a direction
DesignatedEnd(direction) ==
    IF direction = "Horizontal" THEN BoardPos(0, 1) ELSE BoardPos(1, 0)

\* C2: a stretched search that succeeds leaves the start (0,0) without a real
\* predecessor (its prev is its own position), the designated end square
\* ((0,1) horizontally, (1,0) vertically) without a next, and every other
\* square with next and prev both set to other squares of the board.
StretchedSearchIsOpenPath ==
    (Succeeded /\ mode.kind = "Stretched") =>
        LET end == DesignatedEnd(mode.dir)
        IN  /\ graph[ZERO].prev = ZERO
            /\ graph[ZERO].next \in Positions(size) \ {ZERO}
            /\ graph[end].next = None
            /\ graph[end].prev \in Positions(size) \ {end}
            /\ \A p \in Positions(size) \ {ZERO, end} :
                  /\ graph[p].next \in Positions(size) \ {p}
                  /\ graph[p].prev \in Positions(size) \ {p}

\* a vertical stretched search has succeeded after backtracking and its
\* graph is kept in the cache
StretchedSearchSucceeded ==
    /\ pc = "returned"
    /\ returned.after = "success"
    /\ mode.kind = "Stretched"
    /\ mode.dir = "Vertical"
    /\ count > expected_move_count
    /\ IsCached(cache, size, "Vertical")

\* every set link of g, a sentinel's link to its own square aside, joins two
\* squares a knight's move apart
KnightLinks(g) ==
    \A p \in DOMAIN g :
        /\ g[p].next \notin {None, p} => IsKnightMove(p, g[p].next)
        /\ g[p].prev \notin {None, p} => IsKnightMove(p, g[p].prev)

\* C3: in every state of a search, and after every insert_section, merge,
\* reverse_section, flip and open finishing, every set link of a graph (the
\* root sentinel's link to itself aside) points a knight's move away: in the
\* graph being searched, the graph returned, the cached graphs and the board
\* being assembled.
AllLinksAreKnightMoves ==
    /\ KnightLinks(graph)
    /\ KnightLinks(returned.graph)
    /\ KnightLinks(board)
    /\ \A k \in DOMAIN cache : KnightLinks(cache[k])

\* an odd board of several tiles is finished: tiles were inserted and merged,
\* one was the flipped copy of a cache entry, and the open finishing ran
AssembledOpenBoard ==
    /\ dnc_pc = "done"
    /\ IsOpenBoard(board_size)
    /\ merged.ok
    /\ \E k \in DOMAIN cache : IsCached(cache, FlipSize(k[1]), Opposite(k[2]))
    /\ board[BoardPos(0, 0)].next = BoardPos(2, 1)

\* C4: divide_and_conquer::solve on the 8x8 board returns a graph in which
\* following next from (0,0) visits all 64 squares once and returns to (0,0),
\* prev being the inverse of next.
EightByEightIsCycle ==
    (dnc_pc = "done" /\ board_size = <<8, 8>>) =>
        LET w == Walk(board, ZERO, 65)
        IN  /\ Len(w) = 65
            /\ w[65] = ZERO
            /\ Squares(w) = Positions(board_size)
            /\ \A p \in Positions(board_size) : board[board[p].next].prev = p

\* the 8x8 board is assembled
EightByEightSolved ==
    /\ dnc_pc = "done"
    /\ board_size = <<8, 8>>
    /\ board[ZERO].next \in Positions(board_size)

\* g holds one open path from (0,0) over every square of the board: (0,0)
\* has no prev and next (2,1), the walk along next meets every square once,
\* and its last square is the only other one without a next
OpenPathFromOrigin(g, sz) ==
    LET n == Width(sz) * Height(sz)
        w == Walk(g, ZERO, n + 1)
    IN  /\ g[ZERO].prev = None
        /\ g[ZERO].next = BoardPos(2, 1)
        /\ Len(w) = n
        /\ Squares(w) = Positions(sz)
        /\ Cardinality({ p \in Positions(sz) : g[p].next = None }) = 1

\* C5: for every odd x odd board for which divide_and_conquer::solve returns
\* a graph (single freeform tiles such as 3x7 included), the graph after the
\* open finishing is one open path from (0,0) over every square.
OddBoardIsOpenPath ==
    (dnc_pc = "done" /\ IsOpenBoard(board_size)) =>
        OpenPathFromOrigin(board, board_size)

\* merge has just returned (or aborted): merged holds the graph before and
\* after it
JustMerged ==
    /\ merged.pos # None
    /\ dnc_pc \in {"running", "panic"}
    /\ board = merged.after

\* the squares of the cycle through pos, <<>> when the walk does not return
CycleFrom(g, pos) ==
    LET w == Walk(g, pos, Cardinality(DOMAIN g) + 1)
        back == { i \in 2 .. Len(w) : w[i] = pos }
    IN  IF back = {} THEN <<>>
        ELSE SubSeq(w, 1, (CHOOSE i \in back : \A j \in back : i <= j) - 1)

\* a and b are joined by a link of g, in either orientation
Linked(g, a, b) ==
    \/ g[a].next = b /\ g[b].prev = a
    \/ g[b].next = a /\ g[a].prev = b

\* the precondition of merge: first_start and first_end are neighbours on a
\* tour already assembled, and the tile at pos holds an open tour from
\* second_start (whose prev is the sentinel) to second_end (without a next)
MergePrecondition(g, pos, sz, direction) ==
    LET tile == Walk(g, SecondStart(pos, direction), Width(sz) * Height(sz) + 1)
    IN  /\ Linked(g, FirstStart(pos, direction), FirstEnd(pos, direction))
        /\ CycleFrom(g, FirstStart(pos, direction)) # <<>>
        /\ g[SecondStart(pos, direction)].prev = SecondStart(pos, direction)
        /\ Squares(tile) = Section(pos, sz)
        /\ Len(tile) = Width(sz) * Height(sz)
        /\ tile[Len(tile)] = SecondEnd(pos, direction)

\* C6: when first_start and first_end are neighbours (in either orientation)
\* and the tile holds an open tour from second_start to second_end, merge
\* leaves one tour over both regions, containing the edges first_start -
\* second_start and first_end - second_end and no edge first_start -
\* first_end, with next and prev inverse to each other along it.
MergeJoinsTours ==
    (JustMerged
        /\ MergePrecondition(merged.before, merged.pos, merged.size, merged.direction)) =>
        LET first_start == FirstStart(merged.pos, merged.direction)
            first_end == FirstEnd(merged.pos, merged.direction)
            second_start == SecondStart(merged.pos, merged.direction)
            second_end == SecondEnd(merged.pos, merged.direction)
            old == CycleFrom(merged.before, first_start)
            new == CycleFrom(merged.after, first_start)
        IN  /\ merged.ok
            /\ Len(new) = Len(old) + Width(merged.size) * Height(merged.size)
            /\ Squares(new) = Squares(old) \cup Section(merged.pos, merged.size)
            /\ Linked(merged.after, first_start, second_start)
            /\ Linked(merged.after, first_end, second_end)
            /\ ~Linked(merged.after, first_start, first_end)
            /\ \A p \in Squares(new) :
                  /\ merged.after[merged.after[p].next].prev = p
                  /\ merged.after[merged.after[p].prev].next = p

\* a merge whose precondition held, with first_end leading to first_start
MergedAfterReversal ==
    /\ JustMerged
    /\ MergePrecondition(merged.before, merged.pos, merged.size, merged.direction)
    /\ merged.before[FirstEnd(merged.pos, merged.direction)].next
          = FirstStart(merged.pos, merged.direction)

\* the four nodes merge relinks
BoundaryNodes(pos, direction) ==
    { FirstStart(pos, direction), FirstEnd(pos, direction),
      SecondStart(pos, direction), SecondEnd(pos, direction) }

\* C7 as stated: merge changes links of at most the four boundary nodes;
\* every other node, of the tile being merged too, keeps next and prev.
MergeTouchesOnlyBoundary ==
    (JustMerged /\ merged.ok) =>
        \A p \in DOMAIN merged.before \ BoundaryNodes(merged.pos, merged.direction) :
            merged.after[p] = merged.before[p]

\* C7: merge leaves every node outside the merged tile other than first_start
\* and first_end unchanged; a node of the tile other than second_start and
\* second_end is unchanged or, when the tile was reversed because first_end
\* led to first_start, has next and prev exchanged.
MergeTouchesBoundaryAndReversedTile ==
    (JustMerged /\ merged.ok) =>
        LET reversed == merged.before[FirstEnd(merged.pos, merged.direction)].next
                            = FirstStart(merged.pos, merged.direction)
        IN  \A p \in DOMAIN merged.before \ BoundaryNodes(merged.pos, merged.direction) :
                IF p \in Section(merged.pos, merged.size) /\ reversed
                THEN merged.after[p] = Node(merged.before[p].prev, merged.before[p].next)
                ELSE merged.after[p] = merged.before[p]

\* a merge that reversed a tile in which inner nodes carry two links
MergeReversedTile ==
    /\ JustMerged
    /\ merged.ok
    /\ merged.before[FirstEnd(merged.pos, merged.direction)].next
          = FirstStart(merged.pos, merged.direction)
    /\ \E p \in Section(merged.pos, merged.size) \ BoundaryNodes(merged.pos, merged.direction) :
          /\ merged.before[p].next # merged.before[p].prev
          /\ merged.after[p] = Node(merged.before[p].prev, merged.before[p].next)

\* C8: when the search is exhausted without a tour, solve_internal_impl (and
\* with it solve_internal and solve) returns the absence of a result.
ExhaustedSearchReturnsNone ==
    (pc = "returned" /\ returned.after = "failure") => ~returned.some

RECURSIVE TourFrom(_, _, _)
TourFrom(pos, visited, live) ==
    \/ visited = live
    \/ \E q \in live \ visited :
          IsKnightMove(pos, q) /\ TourFrom(q, visited \cup {q}, live)

\* C19: in Basic mode, for every board size, dead-square set and start
\* square, the search ends in Failure if and only if no knight's path from
\* the start visits every non-dead square exactly once.
BasicFailureIffNoTour ==
    (mode.kind = "Basic" /\ pc \in {"success", "failure"}) =>
        (pc = "failure" <=>
            ~TourFrom(start_pos, {start_pos}, Positions(size) \ dead_squares))

\* a Basic search came to Failure after backtracking over many branches
BasicSearchExhausted ==
    /\ mode.kind = "Basic"
    /\ pc = "failure"
    /\ size = <<3, 4>>
    /\ count > 100

\* stack a comes before stack b: b extends a, or is greater where they first
\* differ
StackBefore(a, b) ==
    \E i \in 1 .. Len(b) :
        /\ i - 1 <= Len(a)
        /\ \A j \in 1 .. (i - 1) : a[j] = b[j]
        /\ i = Len(a) + 1 \/ a[i] < b[i]

\* every iteration that leaves the loop running moves the stack of skip
\* counts strictly forward
StackMovesForward ==
    [][(pc = "searching" /\ pc' \in {"searching", "success"}) =>
           StackBefore(moves, moves')]_vars

\* C20: for every board size, dead-square set, start square and mode the
\* search loop reaches Success or Failure after finitely many steps; no stack
\* of skip counts is reached twice.  (A search still running after MaxSteps
\* iterations is left undecided.)
SearchTerminates ==
    /\ StackMovesForward
    /\ (pc = "searching") ~> (pc \in {"success", "failure"} \/ count = MaxSteps)

\* the graph whose only links are those of the chain w: the first square
\* carries the mark of the start (its prev is its own position)
GraphOfChain(sz, w) ==
    [pos \in Positions(sz) |->
        IF \E i \in 1 .. Len(w) : w[i] = pos
        THEN LET i == CHOOSE j \in 1 .. Len(w) : w[j] = pos
             IN  Node(IF i < Len(w) THEN w[i + 1] ELSE None,
                      IF i > 1 THEN w[i - 1] ELSE pos)
        ELSE Node(None, None)]

\* the search is in or just out of its loop and no move onto the start has
\* closed the tour
BeforeClosingMove ==
    \/ pc \in {"searching", "failure", "panic"}
    \/ pc = "success" /\ end_point # start_pos

\* the links are those of one simple chain from the start to the knight with
\* one square per stack entry; squares off the chain have no link
LinksFormOneChain ==
    BeforeClosingMove =>
        LET w == Walk(graph, start_pos, Len(moves))
        IN  /\ Len(w) = Len(moves)
            /\ Cardinality(Squares(w)) = Len(w)
            /\ w[Len(w)] = knight
            /\ graph = GraphOfChain(size, w)
            /\ \A a, b \in DOMAIN graph :
                   a # b => (graph[a].next = b <=> graph[b].prev = a)

\* a backtrack step leaves the graph of the chain without its last square:
\* the graph as it was before the advance onto that square
BacktrackRestores ==
    [][(pc = "searching" /\ pc' = "searching" /\ Len(moves') < Len(moves)) =>
           LET w == Walk(graph, start_pos, Len(moves))
           IN  /\ graph' = GraphOfChain(size, SubSeq(w, 1, Len(w) - 1))
               /\ knight' = w[Len(w) - 1]]_vars

\* C21: in every state of the search before the closing move the set links
\* form exactly one simple chain from the start square to the knight's
\* square with as many squares as the stack has entries, a.next = b exactly
\* when b.prev = a, every square off the chain has both links unset, and a
\* backtrack step restores the graph it undoes the advance of.
SearchGraphIsChain ==
    /\ []LinksFormOneChain
    /\ BacktrackRestores

\* a search stands on a square it has backtracked to, at least two moves
\* from the start
BacktrackedOntoChain ==
    /\ pc = "searching"
    /\ Len(moves) >= 3
    /\ Last(moves) > 0
    /\ graph[knight].next = None

\* a and b follow one another in the tour of g
AdjacentInTour(g, a, b) ==
    /\ a \in DOMAIN g
    /\ b \in DOMAIN g
    /\ g[a].next = b \/ g[a].prev = b
    /\ g[b].next = a \/ g[b].prev = a

\* C22: in every tile a successful Closed or Stretched search returns, every
\* pair of squares of the preconnection map is adjacent in the tour; so are
\* the pair ((W-2,0),(W-1,2)) a horizontal merge uses and the pair
\* ((0,H-2),(2,H-1)) a vertical merge uses.
PreconnectedPairsAdjacent ==
    (Succeeded /\ mode.kind \in {"Closed", "Stretched"}) =>
        /\ \A p \in DOMAIN predetermined_moves :
               \A q \in predetermined_moves[p] : AdjacentInTour(graph, p, q)
        /\ AdjacentInTour(graph, BoardPos(Width(size) - 2, 0),
                          BoardPos(Width(size) - 1, 2))
        /\ AdjacentInTour(graph, BoardPos(0, Height(size) - 2),
                          BoardPos(2, Height(size) - 1))

\* a stretched search that backtracked has succeeded on a tile with the
\* pairs of both merges in its preconnection map
StretchedTileWithMergePairs ==
    /\ pc = "success"
    /\ mode.kind = "Stretched"
    /\ count > expected_move_count
    /\ BoardPos(Width(size) - 1, 2) \in predetermined_moves[BoardPos(Width(size) - 2, 0)]
    /\ BoardPos(2, Height(size) - 1) \in predetermined_moves[BoardPos(0, Height(size) - 2)]
    /\ PreconnectEndPoint(mode.dir, size) # {}

\* the offsets of a knight's move in the order the claim lists them
GenerationOrder ==
    << <<2, 1>>, <<2, -1>>, <<-2, 1>>, <<-2, -1>>,
       <<1, 2>>, <<1, -2>>, <<-1, 2>>, <<-1, -2>> >>

\* the place of the move from pos to q in GenerationOrder
GenerationIndex(pos, q) ==
    CHOOSE o \in 1 .. 8 :
        q = BoardPos(Col(pos) + GenerationOrder[o][1], Row(pos) + GenerationOrder[o][2])

\* the squares a knight's move from pos, reachable or not
KnightNeighbours(pos) ==
    { q \in { BoardPos(Col(pos) + GenerationOrder[o][1], Row(pos) + GenerationOrder[o][2]) :
                o \in 1 .. 8 } : Col(q) >= 0 /\ Row(q) >= 0 }

\* the number of onward moves from q
OnwardCount(ck, q) ==
    Cardinality({ r \in KnightNeighbours(q) : Reachable(ck, q, r) })

\* candidate a ranks no later than candidate b
RanksBefore(ck, pos, a, b) ==
    LET ca == OnwardCount(ck, a)
        cb == OnwardCount(ck, b)
    IN  \/ ca > 0 /\ cb = 0
        \/ ca > 0 /\ cb > 0 /\ ca < cb
        \/ ca = cb /\ GenerationIndex(pos, a) < GenerationIndex(pos, b)

\* the list moves is what the claim says get_possible_moves returns at pos
RankedCandidates(ck, pos, list) ==
    /\ Squares(list) = { q \in KnightNeighbours(pos) : Reachable(ck, pos, q) }
    /\ Cardinality(Squares(list)) = Len(list)
    /\ \A i, j \in 1 .. Len(list) : i < j => RanksBefore(ck, pos, list[i], list[j])

\* C25: get_possible_moves returns exactly the knight neighbours q of the
\* position with reachable(position, q), each once, by non-decreasing onward
\* move count with a count of zero after every positive count, and candidates
\* of equal rank in the generation order (2,1),(2,-1),(-2,1),(-2,-1),(1,2),
\* (1,-2),(-1,2),(-1,-2).
PossibleMovesAreRanked ==
    pc = "searching" =>
        \A pos \in {knight} \cup KnightNeighbours(knight) :
            RankedCandidates(CurrentChecker, pos, GetPossibleMoves(CurrentChecker, pos))

\* the knight has three or more candidates, the ranking reorders them, and one
\* without an onward move comes last
RankingReorders ==
    /\ pc = "searching"
    /\ LET ck == CurrentChecker
           list == GetPossibleMoves(ck, knight)
       IN  /\ Len(list) >= 3
           /\ list # PossibleMovesImpl(ck, knight)
           /\ OnwardCount(ck, list[Len(list)]) = 0
           /\ OnwardCount(ck, list[1]) > 0

-----------------------------------------------------------------------------
(* Properties of the stand-alone functions *)

\* C13: try_translate returns (c + dc, r + dr) when both values lie in
\* 0..65535 and no position otherwise; it never wraps around and never aborts.
TryTranslateNeverWraps ==
    (call.fn = "try_translate" /\ call.stage # "call") =>
        LET c == Col(call.pos) + call.col
            r == Row(call.pos) + call.row
        IN  /\ call.stage = "done"
            /\ call.value = IF c \in 0 .. IdxMax /\ r \in 0 .. IdxMax
                            THEN <<c, r>> ELSE None

\* C14: for every graph holding a complete tour over N live squares, graphs
\* in which (0,0) is dead included, to_board gives each live square a distinct
\* number in 1..N, the square numbered i+1 being the next of the square
\* numbered i, and records exactly the squares with neither link set as dead,
\* without a number.
ToBoardNumbersTheTour ==
    (call.fn = "to_board" /\ returned.after = "success") =>
        LET g == returned.graph
            dead == { p \in DOMAIN g : g[p].next = None /\ g[p].prev = None }
            live == DOMAIN g \ dead
            n == Cardinality(live)
        IN  /\ call.stage = "done"
            /\ call.dead_squares = dead
            /\ \A p \in dead : call.board[p] = 0
            /\ \A i \in 1 .. n : \E p \in live : call.board[p] = i
            /\ \A p \in live :
                  call.board[p] \in 1 .. (n - 1) =>
                      /\ g[p].next # None
                      /\ call.board[g[p].next] = call.board[p] + 1

\* C26: to_board terminates on every graph holding an open tour whose root
\* sentinel (the node whose prev is its own position) lies on any square of
\* the board, not only on (0,0): the backward walk stops at the root sentinel
\* and numbering starts from that square.
ToBoardStopsAtRoot ==
    (call.fn = "to_board" /\ returned.after = "success") =>
        \A root \in DOMAIN returned.graph :
            returned.graph[root].prev = root =>
                /\ call.stage = "done"
                /\ call.board[root] = 1

OpenTourTo(g, sz, end) ==
    LET n == Width(sz) * Height(sz)
        w == Walk(g, ZERO, n + 1)
    IN  /\ DOMAIN g = Positions(sz)
        /\ Len(w) = n
        /\ Squares(w) = Positions(sz)
        /\ w[n] = end

\* C23: after any sequence of tile solves in any order, the graph returned
\* for a Stretched(direction) request of size S, searched or served from the
\* cache, is an open tour from (0,0) to the end square designated for that
\* direction; it is never the graph a Freeform solve of that size cached.
StretchedRequestGetsStretchedTour ==
    (pc = "returned" /\ mode.kind = "Stretched") =>
        OpenTourTo(returned.graph, size, DesignatedEnd(mode.dir))

\* g holds a tour over every square of its grid, from (0,0)
CompleteTour(g) ==
    LET n == Cardinality(DOMAIN g)
    IN  Squares(Walk(g, ZERO, n)) = DOMAIN g

\* C24: a search that ends in Failure leaves the stretched-tile cache
\* unchanged; an entry is inserted only after a search that ended in Success,
\* so every cache entry is a complete tour of its tile.
FailureLeavesCacheAlone ==
    /\ [][pc = "failure" => cache' = cache]_vars
    /\ [][(cache' # cache /\ pc \in {"searching", "success", "failure"}) =>
              pc = "success"]_vars
    /\ [](\A k \in DOMAIN cache : CompleteTour(cache[k]))

\* C16: for every tile size, flipping the stretched Horizontal solution of
\* that size gives the visiting order a from-scratch search of the transposed
\* size in Stretched Vertical mode finds.
FlipEqualsTransposedSearch ==
    (/\ call.fn = "flip"
     /\ call.after = "success"
     /\ pc = "returned"
     /\ mode = Stretched("Vertical")
     /\ returned.after = "success") =>
        LET n == Width(size) * Height(size)
        IN  Walk(call.graph, ZERO, n) = Walk(returned.graph, ZERO, n)

RECURSIVE NameValue(_)
NameValue(name) ==
    IF name = <<>> THEN 0
    ELSE NameValue(SubSeq(name, 1, Len(name) - 1)) * 26
             + (CHOOSE i \in 1 .. 26 : Alphabet[i] = name[Len(name)])

\* C18: for every n >= 1 in range, alphabetize(n) is the bijective base-26
\* column name of n (1 -> A, 26 -> Z, 27 -> AA, 52 -> AZ, 53 -> BA,
\* 18278 -> ZZZ), and parsing that name followed by "-1" yields a position
\* whose col() is n.
ColumnNameRoundTrip ==
    (call.fn = "alphabetize" /\ call.stage = "done") =>
        /\ Len(call.name) >= 1
        /\ NameValue(call.name) = call.val
        /\ call.val = 1 => call.name = <<"A">>
        /\ call.val = 26 => call.name = <<"Z">>
        /\ call.val = 27 => call.name = <<"A", "A">>
        /\ call.val = 52 => call.name = <<"A", "Z">>
        /\ call.val = 53 => call.name = <<"B", "A">>
        /\ call.val = 18278 => call.name = <<"Z", "Z", "Z">>
        /\ call.pos # None
        /\ Col(call.pos) = call.val

\* the parts split_length gave for the length n
SplitParts(n, split) ==
    /\ split[1] + split[2] = n
    /\ split[1] \in 0 .. IdxMax
    /\ split[2] \in 0 .. IdxMax
    /\ split[2] % 2 = 0
    /\ split[1] % 2 = n % 2
    /\ n > 10 => /\ 1 <= split[1] /\ split[1] < n
                 /\ 1 <= split[2] /\ split[2] < n

\* C27: for every length n, split_length(n) returns (a, b) with a + b = n and
\* b even, so a has the parity of n; for every n > 10 both parts are at least
\* 1 and smaller than n, so the repeated splitting of parts longer than 10
\* comes to an end.
SplitLengthHalves ==
    /\ [](call.fn = "split_length" /\ call.stage = "done"
            => SplitParts(call.length, call.split))
    /\ [](call.fn = "segment_length" /\ call.passes > 0
            => SplitParts(call.length, call.split))
    /\ [](call.fn = "segment_length" /\ call.stage = "done"
            => call.segments = SegmentQueue(<< << 0, call.whole >> >>, <<>>))
    /\ (call.fn = "segment_length") ~> (call.stage = "done")

\* the loop has ended after it split parts of parts
SplitPartsOfParts ==
    /\ call.fn = "segment_length"
    /\ call.stage = "done"
    /\ call.passes >= 5
    /\ call.whole % 2 = 1

-----------------------------------------------------------------------------
(* Properties of the partitioner *)

\* the squares of a sector
SectorSquares(sector) == Section(sector[1], sector[2])

\* C9: for every board with both sides at least 3 (a side of 3 next to one
\* longer than 10 included), partition_size completes without overflow or
\* abort, every tile has both dimensions between 1 and 10, the tiles are
\* pairwise disjoint and their union is the board.
PartitionTilesTheBoard ==
    part.stage \in {"done", "aborted"} =>
        /\ part.stage = "done"
        /\ SegmentLength(Width(part.size), Height(part.size)).overflow = FALSE
        /\ SegmentLength(Height(part.size), Width(part.size)).overflow = FALSE
        /\ \A i \in 1 .. Len(part.sectors) :
              /\ Width(part.sectors[i][2]) \in 1 .. 10
              /\ Height(part.sectors[i][2]) \in 1 .. 10
        /\ \A i, j \in 1 .. Len(part.sectors) :
              i # j => SectorSquares(part.sectors[i]) \cap SectorSquares(part.sectors[j]) = {}
        /\ UNION { SectorSquares(part.sectors[i]) : i \in 1 .. Len(part.sectors) }
              = Positions(part.size)

\* C10: the first tile partition_size returns has offset (0,0), and it comes
\* from the only sector handed to partition_closed_sector.
FirstTileIsOrigin ==
    part.stage = "done" =>
        /\ part.sectors[1][1] = ZERO
        /\ Cardinality({ ij \in (1 .. Len(part.vertical)) \X (1 .. Len(part.horizontal)) :
                            BoardPos(part.horizontal[ij[2]][1], part.vertical[ij[1]][1]) = ZERO })
              = 1

\* C11 as stated: for every board whose width and height are both at most
\* 10, partition_size returns exactly one tile, at (0,0) and as large as the
\* board, without further subdivision.
SmallBoardIsOneTile ==
    (part.stage = "done" /\ Width(part.size) <= 10 /\ Height(part.size) <= 10) =>
        /\ Len(part.sectors) = 1
        /\ part.sectors[1][1] = ZERO
        /\ part.sectors[1][2] = part.size

\* the length of the first piece the closed-sector table cuts from the long
\* side of a board, 0 for a board the table does not name
ClosedTableSplit(sz) ==
    LET short_side == Min2(Width(sz), Height(sz))
        long_side == Max2(Width(sz), Height(sz))
    IN  IF short_side = 5 /\ long_side = 10 THEN 6
        ELSE IF (short_side = 5 \/ short_side = 7) /\ long_side = 9 THEN 5
        ELSE 0

\* C11: for every board whose width and height are both at most 10, neither
\* axis is segmented, and partition_size returns the board as one tile at
\* (0,0) unless its sides are 5 and 10, 5 and 9 or 7 and 9: those boards are
\* cut across the long side into two tiles, the second of length 4.
SmallBoardIsOneTileOrTableSplit ==
    (part.stage = "done" /\ Width(part.size) <= 10 /\ Height(part.size) <= 10) =>
        LET w == Width(part.size)
            h == Height(part.size)
            cut == ClosedTableSplit(part.size)
        IN  /\ part.horizontal = << <<0, w>> >>
            /\ part.vertical = << <<0, h>> >>
            /\ part.sectors[1][1] = ZERO
            /\ IF cut = 0
               THEN /\ Len(part.sectors) = 1
                    /\ part.sectors[1][2] = part.size
               ELSE /\ Len(part.sectors) = 2
                    /\ part.sectors[1][2] = IF w <= h THEN <<w, cut>> ELSE <<cut, h>>
                    /\ part.sectors[2][1] = IF w <= h THEN BoardPos(0, cut) ELSE BoardPos(cut, 0)
                    /\ part.sectors[2][2] = IF w <= h THEN <<w, h - cut>> ELSE <<w - cut, h>>
                    /\ Max2(w, h) - cut = 4

\* a board of at most 10x10 came back from partition_size in two tiles
SmallBoardSplitByTable ==
    /\ part.stage = "done"
    /\ Width(part.size) <= 10
    /\ Height(part.size) <= 10
    /\ Len(part.sectors) = 2

\* C28: generic halving is applied only to an axis longer than 10: for every
\* length of at most 10 and every value of the other dimension, values above
\* 10 included, segment_length(length, other) returns the single segment
\* (0, length), so a board side of at most 10 is never halved.
ShortSideIsOneSegment ==
    part.stage = "done" =>
        /\ Width(part.size) <= 10 =>
               part.horizontal = << <<0, Width(part.size)>> >>
        /\ Height(part.size) <= 10 =>
               part.vertical = << <<0, Height(part.size)>> >>

-----------------------------------------------------------------------------
(* Properties of the graph views *)

\* the positions a graph is read at: its squares and a margin beyond them
ViewProbes == Positions(<<MaxSection + 2, MaxSection + 2>>)

\* what the holder of a reference reads through pos, next and prev
Reads(r) ==
    IF r.ok THEN [ok |-> TRUE, pos |-> r.pos, next |-> NodeRefNext(r), prev |-> NodeRefPrev(r)]
    ELSE [ok |-> FALSE, pos |-> None, next |-> None, prev |-> None]

\* the reads of a node with next and prev exchanged
Exchanged(rd) == [rd EXCEPT !.next = rd.prev, !.prev = rd.next]

\* C29: at every position a reversed graph, of any variant, reads the next
\* of the graph it was made of as prev and its prev as next, with pos as it
\* was (and panics where that graph panics); a graph reversed twice reads as
\* the graph did before; the owning graph reversed, whose nodes are relinked
\* copies, reads as the ReverseRef view of the graph it was made of
ReverseExchangesLinks ==
    (call.fn = "view" /\ call.stage = "view" /\ call.reversals > 0) =>
        \A p \in ViewProbes :
            /\ Reads(At(call.view, p)) = Exchanged(Reads(At(call.before, p)))
            /\ Reads(At(ReverseGraph(call.view), p)) = Reads(At(call.before, p))
            /\ call.reversals = 2 => Reads(At(call.view, p)) = Reads(At(call.original, p))
            /\ call.before.kind = "Direct" =>
                  Reads(At(call.view, p)) =
                      Reads(At(View("ReverseRef", call.before, ZERO, <<0, 0>>), p))

\* a section of a reversed view has been reversed twice, and it reads a node
\* whose two links differ
SectionReversedTwice ==
    /\ call.fn = "view"
    /\ call.stage = "view"
    /\ call.reversals = 2
    /\ call.view.kind = "Section"
    /\ call.view.of.kind = "ReverseRef"
    /\ \E p \in ViewProbes :
          /\ At(call.view, p).ok
          /\ NodeRefNext(At(call.view, p)) # NodeRefPrev(At(call.view, p))

\* the nodes of the rectangle <<start, size>> of the view v, as v reads them
NodesOfRectangle(v, r) == { Reads(At(v, p)) : p \in Section(r[1], r[2]) }

\* the rectangle lies within the view
WithinView(v, r) ==
    /\ Col(r[1]) + Width(r[2]) <= Width(ViewSize(v))
    /\ Row(r[1]) + Height(r[2]) <= Height(ViewSize(v))

\* C30: an iteration of a rectangle that lies within the graph, through any
\* variant, does not panic, and when it ends it has yielded the nodes at the
\* positions of the rectangle, each once and no other
IterationYieldsRectangle ==
    (call.fn = "view" /\ WithinView(call.view, call.want)) =>
        /\ call.stage # "panicked"
        /\ call.stage = "done" =>
              /\ { Reads(call.yielded[i]) : i \in 1 .. Len(call.yielded) }
                     = NodesOfRectangle(call.view, call.want)
              /\ Len(call.yielded) = Width(call.want[2]) * Height(call.want[2])

-----------------------------------------------------------------------------
(* Stand-alone searches and assemblies together *)

InitAll == Init \/ InitDnc

NextAll ==
    \/ Call
    \/ DncSolve
    \/ DncDivide
    \/ DncTile
    \/ Iterate
    \/ SearchPanic
    \/ Return
    \/ DncInsert
    \/ DncMerge
    \/ DncReturn

SpecAll == InitAll /\ [][NextAll]_vars

====
